---- MODULE Spec2Model ----
(***************************************************************************)
(* A state-machine model of the background refresh engine                  *)
(* (update_manager.py: UpdateManager) and of the real-time quote           *)
(* distribution (realtime_prices.py: PriceCache, SubscriptionManager,      *)
(* RealtimePriceManager) of synergyalphaapi.                                *)
(*                                                                         *)
(* Both run on one asyncio event loop: the code between two awaits is one  *)
(* atomic step, and each action below is such a step.                      *)
(*                                                                         *)
(*   Spec      the batch update orchestrator: update loop, background      *)
(*             update_stock_data calls, _process_updates runs, storage     *)
(*   FairSpec  Spec with the event loop's fairness                         *)
(*   SpecRun   one caller's runs, followed batch by batch                  *)
(*   SpecCycle the update loop alone while the wall clock advances         *)
(*   SpecLoops the update loop and the polling loop side by side           *)
(*   SpecRT    subscriptions, price cache, get_price, fetch and broadcast  *)
(*   SpecCheck _check_symbol_for_updates over bounded stored records       *)
(*   SpecClock _get_current_market_status over the days and times of day   *)
(*   SpecMerge the merge of process_single_stock over the source results   *)
(***************************************************************************)
EXTENDS Integers, Sequences, FiniteSets, TLC

(***************************************************************************)
(* Bounds of the model.                                                    *)
(***************************************************************************)
\* longest symbol list an update_stock_data call is given
MaxLen == 1
\* longest _force_refresh_symbols list
MaxQueue == 3
\* longest symbol list of a run followed batch by batch (SpecRun)
MaxRunLen == 4
\* seconds after which a cache entry's age is no longer counted
MaxAge == 5
\* seconds the wall clock of the orchestrator advances (SpecCycle)
MaxNow == 3

(***************************************************************************)
(* Program constants.                                                      *)
(***************************************************************************)
\* update_manager.py:440  batch_size = 3
batch_size == 3
\* update_manager.py:201, 208, 215, 247  the staleness budgets in seconds
CLOSED_BUDGET == 86400
PRE_MARKET_BUDGET == 900
OPEN_BUDGET == 300
AFTER_HOURS_BUDGET == 1800
\* update_manager.py:835  len(combined_data) > 5
min_fields == 5

None == "None"

\* ticker symbols of the model; AllSymbols is what _get_sp500_symbols returns
Symbols == {"AAPL", "MSFT"}
AllSymbols == <<"AAPL", "MSFT">>
\* what a caller of update_stock_data can pass: a str in any letter case
PassedSymbols == Symbols \cup {"aapl"}

\* the update loop task and the background tasks running update_stock_data
Loop == "loop"
ApiTasks == {"api1"}
Callers == {Loop} \cup ApiTasks

VARIABLES
  \* ---- UpdateManager class state (update_manager.py:74-83) ----
  is_updating,            \* _is_updating
  force_refresh_symbols,  \* _force_refresh_symbols
  update_task,            \* _update_task: "none" | "alive" | "cancelling"
  \* ---- per caller: position and locals of _process_updates ----
  pc,                     \* where each task is suspended
  call,                   \* [kind, symbols] of the task's current _process_updates call
  run,                    \* locals of the task's accepted run, see NoRun
  needing,                \* update loop: [ci, list] symbols_needing_update being built
  storage,                \* db.companies: the document of each "ticker" value
  now,                    \* datetime.now(), in seconds
  \* ---- RealtimePriceManager (realtime_prices.py:101-107) ----
  subscriptions,          \* SubscriptionManager._subscriptions: ticker -> set of connections
  cache,                  \* PriceCache._cache: ticker -> entry, or None
  is_running,             \* _is_running
  ploop,                  \* _polling_task: where _polling_loop is suspended
  stop_pc,                \* where the caller of stop() is
  fpc,                    \* where each price fetch task is suspended
  ft,                     \* locals of each price fetch task, see NoFetch
  \* ---- one evaluation of _check_symbol_for_updates ----
  check,                  \* [input, result]
  \* ---- one evaluation of _get_current_market_status ----
  clock,                  \* [day, time, status]
  \* ---- one merge of process_single_stock ----
  merge,                  \* [input, result]
  \* ---- one process_single_stock task and its retries ----
  fetch,                  \* see NoTask
  \* ---- the throttle of _process_updates ----
  throttle,               \* see NoThrottle
  \* ---- the semaphore of RealtimePriceManager._fetch_price ----
  sem,                    \* see NoSem
  \* ---- the loop tasks the two managers have created ----
  life,                   \* see NoLife
  \* ---- the companies collection, field by field ----
  store                   \* see NoStore

umVars == <<is_updating, force_refresh_symbols, update_task, pc, call, run, needing, storage>>

rtVars == <<subscriptions, cache, is_running, ploop, stop_pc, fpc, ft>>

\* the evaluations of the pure functions
pureVars == <<check, clock, merge, fetch, throttle, sem, life, store>>

vars == <<umVars, rtVars, pureVars, now>>

(***************************************************************************)
(* Helpers.                                                                *)
(***************************************************************************)
Min(a, b) == IF a < b THEN a ELSE b

IsPrefix(s, t) == Len(s) <= Len(t) /\ SubSeq(t, 1, Len(s)) = s

\* the non-empty symbol lists of length at most n
SeqsUpTo(n) == UNION {[1..m -> Symbols] : m \in 1..n}

\* what a background task can pass to update_stock_data (main.py:293, 307)
ApiInputs == SeqsUpTo(MaxLen)

RoomFor(n) == Len(force_refresh_symbols) + n <= MaxQueue

\* db.companies holds no document with this ticker, or one
Absent == [kind |-> "absent"]

Doc(ticker, last_updated) ==
  [kind |-> "doc", ticker |-> ticker, last_updated |-> last_updated]

NoCall == [kind |-> "none", symbols |-> <<>>]

\* i, tasks, successful_updates, failed_updates: the locals of lines 433-445;
\* k: the task the loop of line 461 is at; end: how the try block was left;
\* raised, written: how many awaited tasks raised, how many upserts were made
NoRun == [i |-> 0, tasks |-> <<>>, k |-> 0, successful_updates |-> 0,
          failed_updates |-> 0, raised |-> 0, written |-> 0, end |-> "none"]

NoNeeding == [ci |-> 0, list |-> <<>>]

\* the program points of _process_updates between "_is_updating = True" and
\* the end of its finally block
RunPCs == {"create", "await", "save", "cooldown", "finally"}

InRun(p) == pc[p] \in RunPCs

\* a cancelled task takes no further step of its own: its next resumption
\* raises CancelledError (update_manager.py:108)
Runnable(p) == p # Loop \/ update_task = "alive"

(***************************************************************************)
(* Init: the state after the class body has run (update_manager.py:74-83): *)
(* no update task, no run, an empty queue, an empty collection.            *)
(***************************************************************************)
InitUM ==
  /\ is_updating = FALSE
  /\ force_refresh_symbols = <<>>
  /\ update_task = "none"
  /\ pc = [p \in Callers |-> IF p = Loop THEN "dead" ELSE "idle"]
  /\ call = [p \in Callers |-> NoCall]
  /\ run = [p \in Callers |-> NoRun]
  /\ needing = NoNeeding
  /\ storage = [s \in PassedSymbols |-> Absent]
  /\ now = 0

(***************************************************************************)
(* _process_updates, entry (update_manager.py:425-434).  A caller reaches  *)
(* it without suspending, so the test of _is_updating and the assignment   *)
(* are one step with what the caller did since its last await.  q is       *)
(* _force_refresh_symbols as the caller left it, retpc where the caller    *)
(* continues when the call returns at once.                                *)
(***************************************************************************)
\* (a variant without the guard of line 427)
Busy_NoGuard == FALSE

Busy == is_updating

\* (a variant that returns without line 429)
ProcessUpdatesRejected_Drops(p, kind, syms, q, retpc) ==
  /\ force_refresh_symbols' = q
  /\ pc' = [pc EXCEPT ![p] = retpc]
  /\ call' = [call EXCEPT ![p] = IF p = Loop THEN NoCall
                                 ELSE [kind |-> kind, symbols |-> syms]]
  /\ UNCHANGED <<is_updating, run>>

ProcessUpdatesRejected(p, kind, syms, q, retpc) ==
  /\ force_refresh_symbols' = q \o syms
  /\ pc' = [pc EXCEPT ![p] = retpc]
  /\ call' = [call EXCEPT ![p] = IF p = Loop THEN NoCall
                                 ELSE [kind |-> kind, symbols |-> syms]]
  /\ UNCHANGED <<is_updating, run>>

ProcessUpdatesAccepted(p, kind, syms, q) ==
  /\ is_updating' = TRUE
  /\ force_refresh_symbols' = q
  /\ call' = [call EXCEPT ![p] = [kind |-> kind, symbols |-> syms]]
  /\ run' = [run EXCEPT ![p] = NoRun]
  /\ pc' = [pc EXCEPT ![p] = "create"]

ProcessUpdatesEntry(p, kind, syms, q, retpc) ==
  IF Busy
  THEN ProcessUpdatesRejected(p, kind, syms, q, retpc)
  ELSE ProcessUpdatesAccepted(p, kind, syms, q)

(***************************************************************************)
(* update_stock_data(symbols) run as a background task (main.py:293, 307;  *)
(* update_manager.py:94-102).                                              *)
(***************************************************************************)
ApiCall(p, syms) ==
  /\ pc[p] = "idle"
  /\ RoomFor(Len(AllSymbols) + (IF is_updating THEN Len(syms) ELSE 0))
  /\ ProcessUpdatesEntry(p, "api", syms, force_refresh_symbols, "rejected")
  /\ UNCHANGED <<update_task, needing, storage>>

\* the background task of a rejected call ends
ApiExit(p) ==
  /\ pc[p] = "rejected"
  /\ pc' = [pc EXCEPT ![p] = "idle"]
  /\ call' = [call EXCEPT ![p] = NoCall]
  /\ UNCHANGED <<is_updating, force_refresh_symbols, update_task, run, needing, storage>>

(***************************************************************************)
(* _process_updates, the accepted run (update_manager.py:436-487).         *)
(***************************************************************************)
\* the symbols of the batch starting at offset i: symbols[i:i+batch_size]
BatchLen(p) == Min(batch_size, Len(call[p].symbols) - run[p].i)

\* asyncio.Semaphore(2) (line 74)
semaphore_width == 2

\* lines 446-458: one more task of the batch is created.  The throttle sleep
\* of line 451 is the suspension point before it (ThrottleCheck below follows
\* its times).  "async with cls._semaphore" (lines 456-458) encloses
\* create_task alone: the semaphore is free before the step, taken, and
\* released in the same step, before the task has run.
PU_CreateTask(p) ==
  /\ pc[p] = "create"
  /\ Runnable(p)
  /\ LET sym == call[p].symbols[run[p].i + Len(run[p].tasks) + 1]
         ts  == Append(run[p].tasks, [sym |-> sym, st |-> "pending", at |-> 0])
     IN /\ run' = [run EXCEPT ![p].tasks = ts,
                              ![p].k = IF Len(ts) = BatchLen(p) THEN 1 ELSE 0]
        /\ pc' = [pc EXCEPT ![p] = IF Len(ts) = BatchLen(p) THEN "await" ELSE "create"]
  /\ UNCHANGED <<is_updating, force_refresh_symbols, update_task, call, needing, storage>>

\* a process_single_stock task ends (update_manager.py:684-839); how it
\* ended shows when it is awaited.  Its merge read datetime.now() for
\* last_updated (line 820) in the step that ends it.
TaskFinish(p, j) ==
  /\ pc[p] \in {"create", "await", "save"}
  /\ j \in 1..Len(run[p].tasks)
  /\ run[p].tasks[j].st = "pending"
  /\ run' = [run EXCEPT ![p].tasks[j].st = "done", ![p].tasks[j].at = now]
  /\ UNCHANGED <<is_updating, force_refresh_symbols, update_task, pc, call, needing, storage>>

\* a finished task holds a record, holds None, or raised
TaskOutcomes == {"record", "none", "raise"}

\* (a variant that leaves the loop of line 461 after its first task)
Advance_NoWait(p, r) ==
  /\ run' = [run EXCEPT ![p] = r]
  /\ pc' = [pc EXCEPT ![p] = "cooldown"]

\* after the task at k has been handled: the next one, or the cooldown of line 480
Advance(p, r) ==
  IF r.k = Len(r.tasks)
  THEN /\ run' = [run EXCEPT ![p] = r]
       /\ pc' = [pc EXCEPT ![p] = "cooldown"]
  ELSE /\ run' = [run EXCEPT ![p] = [r EXCEPT !.k = r.k + 1]]
       /\ pc' = [pc EXCEPT ![p] = "await"]

\* (a variant without the handler of line 475: the exception reaches line 484)
OnTaskRaise_Escapes(p, r) ==
  /\ run' = [run EXCEPT ![p] = [r EXCEPT !.end = "fault"]]
  /\ pc' = [pc EXCEPT ![p] = "finally"]

\* lines 475-477: the awaited task raised; the symbol is counted as failed
OnTaskRaise(p, r) ==
  Advance(p, [r EXCEPT !.failed_updates = r.failed_updates + 1])

\* (a variant that counts a task without a record as successful)
OnTaskNone_CountedSuccessful(p, r) ==
  Advance(p, [r EXCEPT !.successful_updates = r.successful_updates + 1])

\* lines 472-474: the awaited task returned None; nothing is written and
\* the symbol is counted as failed
OnTaskNone(p, r) ==
  Advance(p, [r EXCEPT !.failed_updates = r.failed_updates + 1])

\* lines 461-464: "result = await task" returns or raises once the task is done
PU_AwaitTask(p, out) ==
  /\ pc[p] = "await"
  /\ Runnable(p)
  /\ run[p].tasks[run[p].k].st = "done"
  /\ CASE out = "record" -> /\ pc' = [pc EXCEPT ![p] = "save"]
                            /\ run' = run
       [] out = "none"   -> OnTaskNone(p, run[p])
       [] out = "raise"  -> OnTaskRaise(p, [run[p] EXCEPT !.raised = run[p].raised + 1])
  /\ UNCHANGED <<is_updating, force_refresh_symbols, update_task, call, needing, storage>>

\* line 468: successful_updates += 1
OnSaved(p, r) ==
  Advance(p, [r EXCEPT !.successful_updates = r.successful_updates + 1])

\* (a variant in which the write stamps the record)
Upserted_StampedAtWrite(symbol, task) == Doc(symbol, now)

\* database.py:50-54: update_one({"ticker": symbol}, {"$set": data},
\* upsert=True) with the record the task returned, whose "ticker" is the
\* symbol the task was given (update_manager.py:736) and whose
\* "last_updated" the time of its merge (line 820)
Upserted(symbol, task) == Doc(task.sym, task.at)

\* lines 465-468 with database.py:39-61: update_company_data upserts the
\* record, or catches the storage error and returns False; either way it
\* returns, and line 468 counts the symbol as successful
PU_Save(p, ok) ==
  /\ pc[p] = "save"
  /\ Runnable(p)
  /\ LET task == run[p].tasks[run[p].k]
         sym == task.sym
     IN /\ storage' = IF ok THEN [storage EXCEPT ![sym] = Upserted(sym, task)] ELSE storage
        /\ OnSaved(p, [run[p] EXCEPT !.written = run[p].written + 1])
  /\ UNCHANGED <<is_updating, force_refresh_symbols, update_task, call, needing>>

\* lines 480, 441: the cooldown ends; the next batch, or the end of the loop
PU_NextBatch(p) ==
  /\ pc[p] = "cooldown"
  /\ Runnable(p)
  /\ LET ni == run[p].i + batch_size
     IN IF ni >= Len(call[p].symbols)
        THEN /\ run' = [run EXCEPT ![p].end = "normal"]
             /\ pc' = [pc EXCEPT ![p] = "finally"]
        ELSE /\ run' = [run EXCEPT ![p].i = ni, ![p].tasks = <<>>, ![p].k = 0]
             /\ pc' = [pc EXCEPT ![p] = "create"]
  /\ UNCHANGED <<is_updating, force_refresh_symbols, update_task, call, needing, storage>>

\* lines 484-485: an exception of the batch loop outside the per-task
\* handlers (opening the session, creating a task) is caught and logged
PU_Fault(p) ==
  /\ pc[p] = "create"
  /\ Runnable(p)
  /\ run' = [run EXCEPT ![p].end = "fault"]
  /\ pc' = [pc EXCEPT ![p] = "finally"]
  /\ UNCHANGED <<is_updating, force_refresh_symbols, update_task, call, needing, storage>>

\* where the caller continues after its run; "cancelled": the update loop
\* task has ended, CancelledError having left the run through the finally
\* block
AfterRun(p) ==
  IF run[p].end = "cancelled" THEN "cancelled"
  ELSE IF p # Loop THEN "idle"
  ELSE IF call[p].kind = "forced" THEN "l_check" ELSE "l_sleep"

\* (a variant that resets the flag at the end of the try block only)
FinallyFlag_NormalEndOnly(p) == run[p].end # "normal"

\* lines 486-487: finally: _is_updating = False, however the try block was left
FinallyFlag(p) == FALSE

PU_Finally(p) ==
  /\ pc[p] = "finally"
  /\ is_updating' = FinallyFlag(p)
  /\ pc' = [pc EXCEPT ![p] = AfterRun(p)]
  /\ run' = [run EXCEPT ![p] = NoRun]
  /\ call' = [call EXCEPT ![p] = NoCall]
  /\ UNCHANGED <<force_refresh_symbols, update_task, needing, storage>>

(***************************************************************************)
(* _update_loop (update_manager.py:123-173).  "l_sleep" is the loop        *)
(* suspended before the top of an iteration, newly created or in the sleep *)
(* of line 169; "l_cooldown" is the loop in the sleep of line 173.         *)
(***************************************************************************)
\* lines 127-138: the iteration starts; a non-empty _force_refresh_symbols is
\* copied, emptied and handed to _process_updates
L_Iter ==
  /\ pc[Loop] \in {"l_sleep", "l_cooldown"}
  /\ update_task = "alive"
  /\ ~is_updating \/ RoomFor(Len(AllSymbols))
  /\ needing' = [ci |-> 1, list |-> <<>>]
  /\ IF force_refresh_symbols # <<>>
     THEN ProcessUpdatesEntry(Loop, "forced", force_refresh_symbols, <<>>, "l_check")
     ELSE /\ pc' = [pc EXCEPT ![Loop] = "l_check"]
          /\ UNCHANGED <<is_updating, force_refresh_symbols, call, run>>
  /\ UNCHANGED <<update_task, storage>>

\* lines 149-154: one symbol of all_symbols[:10] is read from the database
\* and checked.  A symbol without a record always needs an update (line
\* 182); for a stored one the check may go either way.
L_CheckSymbol(has_updates) ==
  /\ pc[Loop] = "l_check"
  /\ update_task = "alive"
  /\ needing.ci \in 1..Len(AllSymbols)
  /\ LET symbol == AllSymbols[needing.ci]
     IN /\ storage[symbol] = Absent => has_updates
        /\ needing' = [ci |-> needing.ci + 1,
                       list |-> IF has_updates THEN Append(needing.list, symbol)
                                ELSE needing.list]
  /\ UNCHANGED <<is_updating, force_refresh_symbols, update_task, pc, call, run, storage>>

\* lines 156-169: the symbols found are handed to _process_updates; then the
\* loop sleeps
L_Process ==
  /\ pc[Loop] = "l_check"
  /\ update_task = "alive"
  /\ needing.ci > Len(AllSymbols)
  /\ needing' = NoNeeding
  /\ IF needing.list # <<>>
     THEN ProcessUpdatesEntry(Loop, "needing", needing.list, force_refresh_symbols, "l_sleep")
     ELSE /\ pc' = [pc EXCEPT ![Loop] = "l_sleep"]
          /\ UNCHANGED <<is_updating, force_refresh_symbols, call, run>>
  /\ UNCHANGED <<update_task, storage>>

\* lines 171-173: the exception is caught and logged; the loop sleeps 60 s
OnLoopFault == "l_cooldown"

\* the seconds of the sleep of line 173
LoopSeconds(at) == IF at = "l_cooldown" THEN 60 ELSE 0

\* an exception of the iteration (the symbol list, the database) before
\* its _process_updates call
L_Fault ==
  /\ pc[Loop] = "l_check"
  /\ update_task = "alive"
  /\ needing.ci \in 1..Len(AllSymbols)
  /\ pc' = [pc EXCEPT ![Loop] = OnLoopFault]
  /\ needing' = NoNeeding
  /\ UNCHANGED <<is_updating, force_refresh_symbols, update_task, call, run, storage>>

(***************************************************************************)
(* start_updates and stop_updates (update_manager.py:86-91, 104-114).      *)
(***************************************************************************)
StartUpdates ==
  /\ update_task = "none"
  /\ update_task' = "alive"
  /\ pc' = [pc EXCEPT ![Loop] = "l_sleep"]
  /\ UNCHANGED <<is_updating, force_refresh_symbols, call, run, needing, storage>>

\* line 108: _update_task.cancel()
StopCancel ==
  /\ update_task = "alive"
  /\ update_task' = "cancelling"
  /\ UNCHANGED <<is_updating, force_refresh_symbols, pc, call, run, needing, storage>>

\* CancelledError is raised at the await the loop is suspended in.  It is no
\* Exception: lines 475, 484 and 171 let it pass, the finally of line 486 runs.
L_Cancelled ==
  /\ update_task = "cancelling"
  /\ pc[Loop] \in {"l_sleep", "l_cooldown", "l_check", "create", "await", "save", "cooldown"}
  /\ IF InRun(Loop)
     THEN /\ run' = [run EXCEPT ![Loop].end = "cancelled"]
          /\ pc' = [pc EXCEPT ![Loop] = "finally"]
     ELSE /\ pc' = [pc EXCEPT ![Loop] = "dead"]
          /\ run' = run
  /\ needing' = NoNeeding
  /\ UNCHANGED <<is_updating, force_refresh_symbols, update_task, call, storage>>

\* lines 109-113: the awaited task has ended; _update_task = None
StopDone ==
  /\ update_task = "cancelling"
  /\ pc[Loop] \in {"dead", "cancelled"}
  /\ update_task' = "none"
  /\ pc' = [pc EXCEPT ![Loop] = "dead"]
  /\ UNCHANGED <<is_updating, force_refresh_symbols, call, run, needing, storage>>

(***************************************************************************)
(* Real-time quotes (realtime_prices.py).  The registry and the cache are  *)
(* read and written under asyncio locks whose critical sections hold no    *)
(* await: a lock is always free when a task runs, and each critical        *)
(* section is part of the step that reaches it.                            *)
(***************************************************************************)
\* tickers as callers spell them, and str.upper on them
RawTickers == {"AAPL", "aapl"}

Upper(t) == IF t = "aapl" THEN "AAPL" ELSE t

Tickers == {Upper(t) : t \in RawTickers}

\* WebSocket connections
Conns == {"ws1", "ws2"}

\* what stock.info answers: the quote_data built from it
Quotes == {"q1", "q2"}

FetchOutcomes == Quotes \cup {"rate_limit", "error"}

\* tasks inside _fetch_price: the callers of get_price, and for each ticker
\* the fetch the polling loop gathers for it
Getters == {"g1"}
Pollers == Tickers
FetchTasks == Getters \cup Pollers

\* a cache entry: the quote_data and the seconds since its last_updated;
\* NoEntry stands for a key that is not in the dict
NoEntry == [quote |-> None, age |-> 0]

NoResult == [what |-> "nothing", quote |-> None]

\* ticker: the argument; seen: what get_price read from the cache; fetches:
\* reads of stock.info; quote: quote_data; connections, disconnected: the
\* locals of broadcast; sent: the connections whose send_json has returned;
\* todo: the connections the for loop of line 80 has yet to reach;
\* broadcast: how broadcast ended; result: what the task returns
NoFetch == [kind |-> "none", ticker |-> None, seen |-> NoEntry, fetches |-> 0,
            quote |-> None, connections |-> {}, todo |-> {}, sent |-> {},
            disconnected |-> {}, broadcast |-> "none", result |-> NoResult]

\* the awaits _polling_loop can be suspended in: not yet run ("created"),
\* the sleeps of lines 139, 155 and 161
Sleeps == {"created", "idle_sleep", "poll_sleep", "cooldown"}

\* the seconds of each sleep: line 139, _poll_interval (line 106), line 161
Seconds(at) ==
  CASE at = "idle_sleep" -> 1
    [] at = "poll_sleep" -> 2
    [] at = "cooldown" -> 5
    [] OTHER -> 0

InitRT ==
  /\ subscriptions = [t \in {} |-> {}]
  /\ cache = [t \in Tickers |-> NoEntry]
  /\ is_running = FALSE
  /\ ploop = "none"
  /\ stop_pc = "idle"
  /\ fpc = [p \in FetchTasks |-> "idle"]
  /\ ft = [p \in FetchTasks |-> NoFetch]

\* dict.get(ticker, set()) of line 73, and the defaultdict lookup
\* self._subscriptions[ticker] of lines 51 and 95, which inserts a missing key
Subscribers(reg, t) == IF t \in DOMAIN reg THEN reg[t] ELSE {}

WithEntry(reg, t, s) == [x \in DOMAIN reg \cup {t} |-> IF x = t THEN s ELSE reg[x]]

WithoutEntry(reg, t) == [x \in DOMAIN reg \ {t} |-> reg[x]]

\* get_active_tickers (lines 64-67): the keys of the registry
ActiveTickers == DOMAIN subscriptions

\* subscribe (lines 48-52)
Subscribe(raw, ws) ==
  /\ subscriptions' = WithEntry(subscriptions, Upper(raw),
                                Subscribers(subscriptions, Upper(raw)) \cup {ws})
  /\ UNCHANGED <<cache, is_running, fpc, ft>>
  /\ UNCHANGED <<ploop, stop_pc>>

\* unsubscribe (lines 54-62): the entry is deleted when its set becomes empty
Unsubscribe(raw, ws) ==
  /\ LET t == Upper(raw)
     IN /\ t \in DOMAIN subscriptions
        /\ subscriptions' = IF subscriptions[t] \ {ws} = {}
                            THEN WithoutEntry(subscriptions, t)
                            ELSE WithEntry(subscriptions, t, subscriptions[t] \ {ws})
  /\ UNCHANGED <<cache, is_running, fpc, ft>>
  /\ UNCHANGED <<ploop, stop_pc>>

\* a second of wall-clock time passes: every cache entry is a second older
Tick ==
  /\ \E t \in Tickers : cache[t].quote # None /\ cache[t].age < MaxAge
  /\ cache' = [t \in Tickers |->
                 IF cache[t].quote # None
                 THEN [cache[t] EXCEPT !.age = Min(@ + 1, MaxAge)]
                 ELSE cache[t]]
  /\ UNCHANGED <<subscriptions, is_running, fpc, ft>>
  /\ UNCHANGED <<ploop, stop_pc>>

\* (a variant with "age <= 5")
Fresh_Inclusive(entry) == entry.quote # None /\ entry.age <= 5

\* line 220 "if cached", lines 222-223 "age < 5"
Fresh(entry) == entry.quote # None /\ entry.age < 5

\* get_price (lines 214-227): a fresh entry is returned; otherwise the task
\* enters _fetch_price, takes a semaphore slot (5 slots, never all taken by
\* the tasks of the model) and sleeps (lines 165-168)
GetPrice(p, raw) ==
  /\ fpc[p] = "idle"
  /\ LET ticker == Upper(raw)
         cached == cache[ticker]
         r == [NoFetch EXCEPT !.kind = "get_price", !.ticker = ticker, !.seen = cached]
     IN IF Fresh(cached)
        THEN /\ fpc' = [fpc EXCEPT ![p] = "returned"]
             /\ ft' = [ft EXCEPT ![p] =
                         [r EXCEPT !.result = [what |-> "cached", quote |-> cached.quote]]]
        ELSE /\ fpc' = [fpc EXCEPT ![p] = "fetching"]
             /\ ft' = [ft EXCEPT ![p] = r]
  /\ UNCHANGED <<subscriptions, cache, is_running>>
  /\ UNCHANGED <<ploop, stop_pc>>

\* start (lines 109-117), called by the application's lifespan when no
\* stop() is under way (main.py:51-55)
RTStart ==
  /\ ~is_running
  /\ stop_pc = "idle"
  /\ is_running' = TRUE
  /\ ploop' = "created"
  /\ UNCHANGED <<subscriptions, cache, stop_pc, fpc, ft>>

\* stop (lines 119-126): the flag is reset, the polling task is cancelled
\* and stop() awaits it.  Cancelling the task cancels the gather it waits
\* for, which cancels the fetches; a cancelled fetch takes no further step
\* of its own: CancelledError is raised at its await and passes the
\* "except Exception" clauses of lines 87, 206 and 210.
RTStop ==
  /\ is_running
  /\ is_running' = FALSE
  /\ ploop' = "cancelling"
  /\ stop_pc' = "awaiting"
  /\ fpc' = [p \in FetchTasks |-> IF p \in Pollers THEN "idle" ELSE fpc[p]]
  /\ ft' = [p \in FetchTasks |-> IF p \in Pollers THEN NoFetch ELSE ft[p]]
  /\ UNCHANGED <<subscriptions, cache>>

\* the cancelled polling task is resumed: CancelledError is raised at its
\* await and ends it, through the break of lines 157-158 or, from the
\* sleep of line 161 or before its first step, uncaught
PollEnd ==
  /\ ploop = "cancelling"
  /\ ploop' = "ended"
  /\ UNCHANGED <<subscriptions, cache, is_running, stop_pc, fpc, ft>>

\* (a variant without the handler of line 127)
StopAfterAwait_Raises == "raised"

\* lines 126-128: "await self._polling_task" returns or raises
\* CancelledError, which is passed over; stop() returns
StopAfterAwait == "idle"

RTStopReturn ==
  /\ stop_pc = "awaiting"
  /\ ploop = "ended"
  /\ stop_pc' = StopAfterAwait
  /\ UNCHANGED <<subscriptions, cache, is_running, ploop, fpc, ft>>

\* one tick of _polling_loop (lines 134-152): a sleep has ended and the
\* flag is set; the loop reads the active tickers and sleeps 1 s when there
\* is none, otherwise starts a fetch for each of them and awaits the gather
PollTick ==
  /\ is_running
  /\ ploop \in Sleeps
  /\ IF ActiveTickers = {}
     THEN /\ ploop' = "idle_sleep"
          /\ UNCHANGED <<fpc, ft>>
     ELSE /\ ploop' = "gather"
          /\ fpc' = [p \in FetchTasks |-> IF p \in ActiveTickers THEN "fetching" ELSE fpc[p]]
          /\ ft' = [p \in FetchTasks |->
                      IF p \in ActiveTickers
                      THEN [NoFetch EXCEPT !.kind = "poll", !.ticker = p]
                      ELSE ft[p]]
  /\ UNCHANGED <<subscriptions, cache, is_running, stop_pc>>

\* (a variant without the handler of line 159: the exception ends the task)
OnPollFault_Escapes == "ended"

\* lines 159-161: an exception of the iteration is caught and logged; the
\* loop sleeps 5 s
OnPollFault == "cooldown"

\* an iteration of _polling_loop raises before its gather
PollFault ==
  /\ is_running
  /\ ploop \in Sleeps
  /\ ploop' = OnPollFault
  /\ UNCHANGED <<subscriptions, cache, is_running, stop_pc, fpc, ft>>

\* what _fetch_price and get_price return once broadcast has returned
\* (lines 204, 227)
Returned(r) ==
  [r EXCEPT !.broadcast = "returned", !.result = [what |-> "quote_data", quote |-> r.quote]]

ReturnedNone(r) == [r EXCEPT !.result = [what |-> "None", quote |-> None]]

\* (a variant that reads the set with self._subscriptions[ticker])
RegistryAfterSnapshot_Indexed(t) ==
  WithEntry(subscriptions, t, Subscribers(subscriptions, t))

\* broadcast, line 73: the registry after the subscriber set was read with
\* dict.get, which inserts nothing
RegistryAfterSnapshot(t) == subscriptions

\* broadcast, lines 71-76: the snapshot of the subscriber set; without
\* subscribers broadcast returns, otherwise it starts the first send_json
BroadcastEnter(p, r) ==
  LET connections == Subscribers(subscriptions, r.ticker)
  IN /\ subscriptions' = RegistryAfterSnapshot(r.ticker)
     /\ IF connections = {}
        THEN /\ fpc' = [fpc EXCEPT ![p] = "returned"]
             /\ ft' = [ft EXCEPT ![p] = Returned(r)]
        ELSE /\ fpc' = [fpc EXCEPT ![p] = "sending"]
             /\ ft' = [ft EXCEPT ![p] =
                         [r EXCEPT !.connections = connections, !.todo = connections]]

\* (a variant that leaves an entry alone when the quote is the one it holds)
Updated_IfChanged(cached, quote_data) ==
  IF cached.quote = quote_data THEN cached ELSE [quote |-> quote_data, age |-> 0]

\* PriceCache.update (lines 21-27): the entry is replaced by the quote_data
\* with last_updated set to now, whatever it held
Updated(cached, quote_data) == [quote |-> quote_data, age |-> 0]

\* _fetch_price after its sleep (lines 170-212): stock.info is read once; a
\* quote is written to the cache and broadcast; a rate limit error is
\* followed by a sleep of 5 s, any other error by the return of None
Fetch(p, out) ==
  /\ fpc[p] = "fetching"
  /\ LET r == [ft[p] EXCEPT !.fetches = @ + 1]
     IN IF out \in Quotes
        THEN /\ cache' = [cache EXCEPT ![r.ticker] = Updated(cache[r.ticker], out)]
             /\ BroadcastEnter(p, [r EXCEPT !.quote = out])
        ELSE /\ fpc' = [fpc EXCEPT ![p] = IF out = "rate_limit" THEN "backoff" ELSE "returned"]
             /\ ft' = [ft EXCEPT ![p] = IF out = "rate_limit" THEN r ELSE ReturnedNone(r)]
             /\ UNCHANGED <<subscriptions, cache>>
  /\ UNCHANGED <<is_running, ploop, stop_pc>>

\* lines 208-209: the sleep after a rate limit error ends
Backoff(p) ==
  /\ fpc[p] = "backoff"
  /\ fpc' = [fpc EXCEPT ![p] = "returned"]
  /\ ft' = [ft EXCEPT ![p] = ReturnedNone(@)]
  /\ UNCHANGED <<subscriptions, cache, is_running>>
  /\ UNCHANGED <<ploop, stop_pc>>

\* broadcast, lines 91-95, reached from the last send without an await: the
\* connections whose send raised are discarded from the ticker's set, which
\* the defaultdict lookup creates when the key is gone
BroadcastEnd(p, r) ==
  /\ subscriptions' =
       IF r.disconnected # {}
       THEN WithEntry(subscriptions, r.ticker,
                      Subscribers(subscriptions, r.ticker) \ r.disconnected)
       ELSE subscriptions
  /\ fpc' = [fpc EXCEPT ![p] = "returned"]
  /\ ft' = [ft EXCEPT ![p] = Returned(r)]

\* the for loop of line 80 goes on to the next connection, or ends
AfterSend(p, r) ==
  IF r.todo = {}
  THEN BroadcastEnd(p, r)
  ELSE /\ ft' = [ft EXCEPT ![p] = r]
       /\ UNCHANGED <<subscriptions, fpc>>

\* (a variant without the handler of line 87: the exception leaves
\* broadcast and is caught at line 210)
OnSendRaise_Propagates(p, ws) ==
  /\ fpc' = [fpc EXCEPT ![p] = "returned"]
  /\ ft' = [ft EXCEPT ![p] = ReturnedNone([@ EXCEPT !.broadcast = "raised"])]
  /\ UNCHANGED subscriptions

\* lines 87-89: send_json raised
OnSendRaise(p, ws) ==
  AfterSend(p, [ft[p] EXCEPT !.todo = @ \ {ws}, !.disconnected = @ \cup {ws}])

\* lines 82-86: send_json returned
OnSendOk(p, ws) ==
  AfterSend(p, [ft[p] EXCEPT !.todo = @ \ {ws}, !.sent = @ \cup {ws}])

\* one send_json of broadcast ends (lines 80-89); sets are iterated in no
\* particular order
Send(p, ws, ok) ==
  /\ fpc[p] = "sending"
  /\ ws \in ft[p].todo
  /\ IF ok THEN OnSendOk(p, ws) ELSE OnSendRaise(p, ws)
  /\ UNCHANGED <<cache, is_running>>
  /\ UNCHANGED <<ploop, stop_pc>>

\* the caller of get_price, or gather (line 152), takes the result; with
\* the last result gather returns and the loop sleeps _poll_interval (line 155)
FetchDone(p) ==
  /\ fpc[p] = "returned"
  /\ fpc' = [fpc EXCEPT ![p] = "idle"]
  /\ ft' = [ft EXCEPT ![p] = NoFetch]
  /\ ploop' = IF p \in Pollers /\ \A q \in Pollers \ {p} : fpc[q] = "idle"
              THEN "poll_sleep" ELSE ploop
  /\ UNCHANGED <<subscriptions, cache, is_running, stop_pc>>

(***************************************************************************)
(* _check_symbol_for_updates (update_manager.py:177-318) as a function of  *)
(* the stored record, the current market status and what the provider      *)
(* answers.                                                                *)
(***************************************************************************)
\* class MarketStatus (update_manager.py:64-68)
CLOSED == "closed"
OPEN == "open"
PRE_MARKET == "pre_market"
AFTER_HOURS == "after_hours"

MarketStatuses == {CLOSED, OPEN, PRE_MARKET, AFTER_HOURS}

\* time_since_update in seconds, on both sides of every budget
Ages == {0, 299, 300, 899, 900, 1799, 1800, 86399, 86400}

\* db: "absent" (no document) or "record";
\* last_updated: "absent", "datetime", or "malformed" (a string that
\*   datetime.fromisoformat rejects); age: time_since_update;
\* market_status, price, volume, image: fields of the stored record, 0 for a
\*   missing number;
\* status: cls._market_status;
\* history: what ticker.history gives: "rows", "empty" or "error";
\*   latest_price, latest_volume: its last row;
\* statements: the fetched financial statements against the stored hash:
\*   "same_hash", "new_hash", "all_empty" or "error"
StoredInputs ==
  [db : {"record"}, last_updated : {"datetime"}, age : Ages,
   market_status : MarketStatuses \cup {None}, price : {0, 1000}, volume : {0, 100},
   image : BOOLEAN, status : MarketStatuses, history : {"rows"},
   latest_price : {0, 1001, 1002}, latest_volume : {0, 105, 106},
   statements : {"same_hash", "new_hash", "all_empty", "error"}]

NoInput ==
  [db |-> "absent", last_updated |-> "absent", age |-> 0, market_status |-> None,
   price |-> 0, volume |-> 0, image |-> FALSE, status |-> CLOSED, history |-> "rows",
   latest_price |-> 0, latest_volume |-> 0, statements |-> "all_empty"]

\* the records whose price, volume and last row play no part: one value each
Plain(S) == {d \in S : d.price = 1000 /\ d.volume = 100
                         /\ d.latest_price = 1001 /\ d.latest_volume = 105}

CheckInputs ==
  StoredInputs
    \cup {[d EXCEPT !.history = h] : d \in Plain(StoredInputs), h \in {"empty", "error"}}
    \cup {[d EXCEPT !.last_updated = l, !.age = 0] :
            d \in Plain({e \in StoredInputs : e.age = 0}), l \in {"absent", "malformed"}}
    \cup {[NoInput EXCEPT !.status = s] : s \in MarketStatuses}

\* lines 182-184 "if not db_data"
NoRecord(d) == d.db = "absent"

\* (a variant without the test of line 188)
NoTimestamp_Ignored(d) == FALSE

\* lines 187-190 "if not db_timestamp"
NoTimestamp(d) == d.last_updated = "absent"

\* (a variant that is a second short of the budget)
Younger_OffByOne(age, budget) == age + 1 < budget

\* lines 201, 208, 215, 247: "time_since_update < budget"
Younger(age, budget) == age < budget

\* lines 229-232: the comparison is made when the four numbers are truthy
Comparable(d) ==
  d.price # 0 /\ d.volume # 0 /\ d.latest_price # 0 /\ d.latest_volume # 0

Abs(n) == IF n < 0 THEN -n ELSE n

\* abs((latest_price - db_price) / db_price) > 0.001
\*   or latest_volume > db_volume * 1.05
Drifted(d) ==
  \/ 1000 * Abs(d.latest_price - d.price) > Abs(d.price)
  \/ 100 * d.latest_volume > 105 * d.volume

\* (a variant whose handler of line 241 only logs)
DriftCheck_ErrorFallsThrough(d) ==
  IF d.history = "error" THEN FALSE
  ELSE IF d.history = "empty" THEN TRUE
  ELSE IF ~Comparable(d) THEN TRUE
  ELSE Drifted(d)

\* lines 219-243: TRUE when the drift check returns True, FALSE when it
\* falls through to the hash check
DriftCheck(d) ==
  IF d.history = "error" THEN TRUE
  ELSE IF d.history = "empty" THEN TRUE
  ELSE IF ~Comparable(d) THEN TRUE
  ELSE Drifted(d)

\* lines 253-313: the hash check (an exception in it is only logged), the
\* market status check and the logo check
AfterBudget(d) ==
  IF d.statements = "new_hash" THEN TRUE
  ELSE IF d.market_status # d.status THEN TRUE
  ELSE IF ~d.image THEN TRUE
  ELSE FALSE

\* lines 180-318
CheckSymbolForUpdates(d) ==
  IF NoRecord(d) THEN TRUE
  ELSE IF NoTimestamp(d) THEN TRUE
  ELSE IF d.last_updated = "malformed" THEN TRUE
  ELSE IF d.status = CLOSED
       THEN ~(Younger(d.age, CLOSED_BUDGET) /\ d.market_status = CLOSED)
  ELSE IF d.status = PRE_MARKET THEN ~Younger(d.age, PRE_MARKET_BUDGET)
  ELSE IF d.status = OPEN
       THEN IF Younger(d.age, OPEN_BUDGET) THEN FALSE
            ELSE IF DriftCheck(d) THEN TRUE
            ELSE AfterBudget(d)
  ELSE IF d.status = AFTER_HOURS THEN ~Younger(d.age, AFTER_HOURS_BUDGET)
  ELSE AfterBudget(d)

\* the update loop evaluates the check for a symbol (line 151)
CheckSymbol ==
  /\ check.result = "pending"
  /\ check' = [check EXCEPT !.result =
                 IF CheckSymbolForUpdates(check.input) THEN "True" ELSE "False"]

InitCK == check = [input |-> NoInput, result |-> "pending"]

(***************************************************************************)
(* _get_current_market_status (update_manager.py:320-357) as a function of *)
(* the weekday and the time of day in US/Eastern.                          *)
(***************************************************************************)
\* datetime.time(h, m, s), ordered as the seconds since midnight
Time(h, m, s) == h * 3600 + m * 60 + s

\* lines 337-344
market_open == Time(9, 30, 0)
market_close == Time(16, 0, 0)
pre_market_open == Time(4, 0, 0)
after_hours_close == Time(20, 0, 0)

\* now.weekday(): 0 is Monday, 6 is Sunday
Weekdays == 0..6

\* now.time(): every whole minute of the day, the second before and after
\* each boundary, and the last second of the day
TimesOfDay ==
  {Time(0, m, 0) : m \in 0..1439}
    \cup {b + d : b \in {market_open, market_close, pre_market_open, after_hours_close},
                  d \in {-1, 1}}
    \cup {Time(23, 59, 59)}

\* (a variant whose intervals are open on both sides)
Within_Open(lo, t, hi) == lo < t /\ t < hi

\* lines 346-350: "lo <= current_time < hi"
Within(lo, t, hi) == lo <= t /\ t < hi

\* lines 333-353
GetCurrentMarketStatus(current_day, current_time) ==
  IF current_day >= 5 THEN CLOSED
  ELSE IF Within(pre_market_open, current_time, market_open) THEN PRE_MARKET
  ELSE IF Within(market_open, current_time, market_close) THEN OPEN
  ELSE IF Within(market_close, current_time, after_hours_close) THEN AFTER_HOURS
  ELSE CLOSED

\* the status is computed for the instant (lines 327-353)
ReadClock ==
  /\ clock.status = "pending"
  /\ clock' = [clock EXCEPT !.status = GetCurrentMarketStatus(clock.day, clock.time)]

InitClockIdle == clock = [day |-> 0, time |-> 0, status |-> "pending"]

(***************************************************************************)
(* The merge of process_single_stock (update_manager.py:686-839) as a      *)
(* function of the symbol and of what the three sources answered.          *)
(***************************************************************************)
\* Python values: None, a str, an int, a float (in hundredths), a dict, a
\* list, a datetime, the float that is not a number
Null == [kind |-> "None"]
StrVal(v) == [kind |-> "str", v |-> v]
IntVal(n) == [kind |-> "int", n |-> n]
FloatVal(h) == [kind |-> "float", hundredths |-> h]
\* float('nan'), which json.loads and the provider library let through
NaN == [kind |-> "nan"]
Dict == [kind |-> "dict"]
List == [kind |-> "list"]
Datetime == [kind |-> "datetime"]

\* the fields both providers supply (lines 561-582, 650-669); of the twenty,
\* five stand for all: three plain ones, the one that passes ensure_type,
\* and the one with a default
SharedFields == {"price", "companyName", "sector", "volAvg", "currency"}

\* the fields of the dict _get_yf_data returns that combined_data reads
YfFields ==
  SharedFields \cup {"ceo", "range", "officers", "financial_statements",
                     "financial_data_hash", "quote", "key_metrics", "ttm_ratios"}

\* a source that gave nothing: _get_yf_data or get_finnhub_data returned None
\* or raised (lines 692-703)
NoSource == [none |-> TRUE, get |-> [f \in {} |-> Null]]

Source(d) == [none |-> FALSE, get |-> d]

\* what _get_yf_data returns (lines 559-620): info.get(...) values that may
\* be None, and values that never are (the range f-string, the officers
\* list, the statements, their hash, the nested dicts)
YfResults ==
  {Source([f \in YfFields |->
             CASE f = "price" -> price
               [] f = "companyName" -> name
               [] f = "sector" -> sector
               [] f = "volAvg" -> vol
               [] f = "currency" -> cur
               [] f = "ceo" -> ceo
               [] f = "range" -> StrVal("164.08-260.1")
               [] f = "officers" -> List
               [] f = "financial_data_hash" -> StrVal("eyJiYWxhbmNl")
               [] OTHER -> Dict]) :
     price \in {Null, FloatVal(22750), NaN}, name \in {Null, StrVal("Apple Inc.")},
     sector \in {Null, StrVal("Technology")}, vol \in {Null, IntVal(54000000)},
     cur \in {Null, StrVal("EUR")}, ceo \in {Null, StrVal("Tim Cook")}}

\* what get_finnhub_data returns (lines 649-670); vol10DayAvg is a float
FinnhubResults ==
  {Source([f \in SharedFields |->
             CASE f = "price" -> price
               [] f = "companyName" -> name
               [] f = "sector" -> sector
               [] f = "volAvg" -> vol
               [] f = "currency" -> cur]) :
     price \in {Null, FloatVal(22700), NaN}, name \in {Null, StrVal("Apple Inc")},
     sector \in {Null, StrVal("Hardware")}, vol \in {Null, FloatVal(5512), StrVal("n/a")},
     cur \in {Null, StrVal("CAD")}}

MergeInputs ==
  [symbol : {"AAPL", "aapl"},
   yf_data : YfResults \cup {NoSource},
   finnhub_data : FinnhubResults \cup {NoSource},
   logo : {Null, StrVal("iVBORw0KGgo")}]

NoMergeInput ==
  [symbol |-> "AAPL", yf_data |-> NoSource, finnhub_data |-> NoSource, logo |-> Null]

\* dict.get on a source: "yf_data = {}" when it is None (lines 716-717),
\* "finnhub_data.get(f) if finnhub_data else None"
FieldOf(src, f) == IF src.none \/ f \notin DOMAIN src.get THEN Null ELSE src.get[f]

\* (a variant in which the secondary source wins)
GetFirstValue_SecondaryFirst(a, b) == IF b # Null THEN b ELSE a

\* get_first_value (lines 720-721) of two arguments
GetFirstValue(a, b) == IF a # Null THEN a ELSE b

\* ensure_type(value, int) (lines 723-732): int() of a float truncates, of
\* a str that is no number or of nan raises ValueError
EnsureInt(value) ==
  CASE value.kind = "None" -> Null
    [] value.kind = "float" -> IntVal(value.hundredths \div 100)
    [] value.kind = "int" -> value
    [] OTHER -> Null

\* the keys of combined_data (lines 735-820)
CombinedKeys ==
  SharedFields \cup {"ticker", "range", "ceo", "officers", "image", "quote", "key_metrics",
                     "ttm_ratios", "financial_statements", "financial_data_hash",
                     "market_status", "last_updated"}

\* lines 735-820
CombinedData(in) ==
  LET yf == in.yf_data
      fh == in.finnhub_data
      first(f) == GetFirstValue(FieldOf(yf, f), FieldOf(fh, f))
  IN [k \in CombinedKeys |->
        CASE k = "ticker" -> StrVal(in.symbol)
          [] k \in {"price", "companyName", "sector"} -> first(k)
          [] k = "volAvg" -> EnsureInt(first(k))
          [] k = "currency" -> GetFirstValue(first(k), StrVal("USD"))
          [] k \in {"range", "ceo", "officers", "financial_data_hash"} -> FieldOf(yf, k)
          [] k = "image" -> in.logo
          [] k \in {"quote", "key_metrics", "ttm_ratios", "financial_statements"} -> Dict
          [] k = "market_status" -> StrVal(CLOSED)
          [] k = "last_updated" -> Datetime]

\* line 823: the keys whose value is None are removed
RemoveNone(d) == [k \in {x \in DOMAIN d : d[x] # Null} |-> d[k]]

NoMergeResult == [returned |-> "pending", data |-> [k \in {} |-> Null]]

ReturnNone == [returned |-> "None", data |-> [k \in {} |-> Null]]

\* line 835: "len(combined_data) > 5"
EnoughFields(d) == Cardinality(DOMAIN d) > min_fields

\* (a variant without the required-fields test of lines 826-833)
ProcessSingleStock_AnyFields(in) ==
  IF in.yf_data.none /\ in.finnhub_data.none THEN ReturnNone
  ELSE LET combined_data == RemoveNone(CombinedData(in))
       IN IF EnoughFields(combined_data)
          THEN [returned |-> "record", data |-> combined_data]
          ELSE ReturnNone

\* lines 711-713 and 822-835
ProcessSingleStock(in) ==
  IF in.yf_data.none /\ in.finnhub_data.none THEN ReturnNone
  ELSE LET combined_data == RemoveNone(CombinedData(in))
       IN IF ~("ticker" \in DOMAIN combined_data
               /\ ("price" \in DOMAIN combined_data \/ "companyName" \in DOMAIN combined_data))
          THEN ReturnNone
          ELSE IF EnoughFields(combined_data)
               THEN [returned |-> "record", data |-> combined_data]
               ELSE ReturnNone

\* the three sources have answered; process_single_stock merges and returns
Merge ==
  /\ merge.result.returned = "pending"
  /\ merge' = [merge EXCEPT !.result = ProcessSingleStock(merge.input)]

InitMergeIdle == merge = [input |-> NoMergeInput, result |-> NoMergeResult]

(***************************************************************************)
(* One process_single_stock task (update_manager.py:678-839) with the      *)
(* tenacity retries of _get_yf_data (lines 489-494) and of the task itself *)
(* (lines 678-683).                                                        *)
(***************************************************************************)
\* stop_after_attempt(5) of _get_yf_data, stop_after_attempt(3) of
\* process_single_stock
yf_stop_after_attempt == 5

ps_stop_after_attempt == 3

\* (a variant that stops one attempt late)
Stops_OneLate(attempt_number, stop) == attempt_number > stop

\* tenacity's stop_after_attempt (lines 493, 682)
Stops(attempt_number, stop) == attempt_number >= stop

RateLimited == "YFRateLimitError"

\* (a variant with reraise=True: the last YFRateLimitError itself is raised)
Exhausted_Reraised == RateLimited

\* what a retry raises after its last attempt: the decorators do not set
\* reraise, so it is tenacity's RetryError, which is no YFRateLimitError
Exhausted == "RetryError"

Sources == {"yf", "finnhub", "logo"}

Raised(exc) == [returned |-> exc, data |-> [k \in {} |-> Null]]

\* ps_attempt, attempt_number: the attempts of the two retries so far;
\* calls: how many times the body of _get_yf_data ran in this task;
\* exhausted: _get_yf_data gave up; fetched: the sources that were called in
\* the current attempt of the task; input: what they answered
NoTask ==
  [pc |-> "idle", ps_attempt |-> 0, attempt_number |-> 0, calls |-> 0,
   exhausted |-> FALSE, fetched |-> {}, input |-> NoMergeInput,
   result |-> NoMergeResult]

TaskSymbols == {"AAPL"}

\* line 458: the task is created and enters the body at line 686
NewTask(symbol) ==
  [NoTask EXCEPT !.pc = "yf", !.ps_attempt = 1, !.input.symbol = symbol]

\* the body of process_single_stock ended an attempt by raising exc or by
\* returning (lines 679-683): a YFRateLimitError is retried until the stop
\* condition, then RetryError leaves the task; a return ends the task
EndAttempt(f, res) ==
  IF res.returned = RateLimited
  THEN IF Stops(f.ps_attempt, ps_stop_after_attempt)
       THEN [f EXCEPT !.pc = "done", !.result = Raised(Exhausted)]
       ELSE [f EXCEPT !.pc = "yf", !.ps_attempt = f.ps_attempt + 1,
                      !.attempt_number = 0, !.fetched = {}]
  ELSE [f EXCEPT !.pc = "done", !.result = res]

\* lines 837-839: "except Exception" around the whole body catches what is
\* raised inside it, YFRateLimitError included, and the body returns None
OnBodyRaise(f, exc) == EndAttempt(f, ReturnNone)

\* lines 692-698: _get_yf_data raised.  A YFRateLimitError is re-raised
\* into the body's handler; any other exception is logged and yf_data
\* stays None
OnPrimaryRaise(f, exc) ==
  IF exc = RateLimited
  THEN OnBodyRaise(f, exc)
  ELSE [f EXCEPT !.pc = "finnhub", !.input.yf_data = NoSource]

\* what one run of the body of _get_yf_data does (lines 496-625): it
\* returns its dict, returns None after an error, or raises
\* YFRateLimitError.  Of the dicts, those that differ in price, companyName
\* and currency stand for all (the merge of every one is SpecMerge's).
PrimaryAnswers ==
  {r \in YfResults : r.get["sector"] = Null /\ r.get["volAvg"] = Null /\ r.get["ceo"] = Null}
    \cup {NoSource}

\* what get_finnhub_data returns (lines 649-675): its dict, or None
SecondaryAnswers ==
  {r \in FinnhubResults : r.get["sector"] = Null /\ r.get["currency"] = Null}
    \cup {NoSource}

\* "yf_data = await cls._get_yf_data(symbol)" (line 693), one attempt of its
\* retry: a return is passed on; a YFRateLimitError is retried after the
\* backoff unless the stop condition holds, and then the retry raises
YfAttempt(limited, answer) ==
  /\ fetch.pc = "yf"
  /\ LET n == fetch.attempt_number + 1
         f == [fetch EXCEPT !.attempt_number = n, !.calls = fetch.calls + 1,
                            !.fetched = fetch.fetched \cup {"yf"}]
     IN fetch' =
          IF ~limited
          THEN [f EXCEPT !.pc = "finnhub", !.input.yf_data = answer]
          ELSE IF Stops(n, yf_stop_after_attempt)
               THEN OnPrimaryRaise([f EXCEPT !.exhausted = TRUE], Exhausted)
               ELSE [f EXCEPT !.pc = "yf_backoff"]

\* wait_exponential(multiplier=5, min=10, max=300) (line 492): the sleep
\* before the next attempt ends
YfBackoff ==
  /\ fetch.pc = "yf_backoff"
  /\ fetch' = [fetch EXCEPT !.pc = "yf"]

\* lines 700-703: get_finnhub_data returns its dict, or None (it catches its
\* own exceptions, lines 671-675)
FinnhubCall(answer) ==
  /\ fetch.pc = "finnhub"
  /\ fetch' = [fetch EXCEPT !.pc = "logo", !.input.finnhub_data = answer,
                            !.fetched = fetch.fetched \cup {"finnhub"}]

\* lines 705-835: get_stock_logo returns the image or None (lines 409-421),
\* and the body merges what the three sources answered and returns
LogoCall(answer) ==
  /\ fetch.pc = "logo"
  /\ LET f == [fetch EXCEPT !.input.logo = answer,
                            !.fetched = fetch.fetched \cup {"logo"}]
     IN fetch' = EndAttempt(f, ProcessSingleStock(f.input))

InitFetchIdle == fetch = NoTask

(***************************************************************************)
(* The per-symbol throttle in front of every task creation                 *)
(* (update_manager.py:446-458), over the requests of all runs.             *)
(***************************************************************************)
\* MIN_REQUEST_INTERVAL, in seconds (line 76)
MIN_REQUEST_INTERVAL == 2

\* last_request_time: _last_request_time, a dict; symbol, current_time,
\* wake: the request that sleeps at line 451 and the end of its sleep;
\* started, previous: when the latest task of each symbol was created, and
\* the one before it
NoThrottle ==
  [pc |-> "idle", symbol |-> "AAPL", current_time |-> 0, wake |-> 0,
   last_request_time |-> [s \in {} |-> 0],
   started |-> [s \in {} |-> 0], previous |-> [s \in {} |-> 0]]

\* dict assignment
Put(d, key, value) == [k \in DOMAIN d \cup {key} |-> IF k = key THEN value ELSE d[k]]

\* line 453: "_last_request_time[symbol] = current_time", the time read at
\* line 449 before the sleep
Recorded(current_time, at) == current_time

\* lines 453-458: the time is recorded and the task created
Request(t, symbol, current_time) ==
  [t EXCEPT !.pc = "idle",
            !.last_request_time = Put(t.last_request_time, symbol, Recorded(current_time, now)),
            !.previous = IF symbol \in DOMAIN t.started
                         THEN Put(t.previous, symbol, t.started[symbol])
                         ELSE t.previous,
            !.started = Put(t.started, symbol, now)]

\* lines 448-451: the next symbol of a batch.  "get(symbol, 0)" of a symbol
\* never requested is the epoch, long ago; a symbol requested less than
\* MIN_REQUEST_INTERVAL ago sleeps for the rest of the interval
ThrottleCheck(symbol) ==
  /\ throttle.pc = "idle"
  /\ LET current_time == now
         recent == /\ symbol \in DOMAIN throttle.last_request_time
                   /\ current_time - throttle.last_request_time[symbol] < MIN_REQUEST_INTERVAL
     IN throttle' =
          IF recent
          THEN [throttle EXCEPT
                  !.pc = "sleeping", !.symbol = symbol, !.current_time = current_time,
                  !.wake = current_time + (MIN_REQUEST_INTERVAL
                                           - (current_time - throttle.last_request_time[symbol]))]
          ELSE Request(throttle, symbol, current_time)

\* the sleep of line 451 ends, not before its time
ThrottleWake ==
  /\ throttle.pc = "sleeping"
  /\ now >= throttle.wake
  /\ throttle' = Request(throttle, throttle.symbol, throttle.current_time)

InitThrottleIdle == throttle = NoThrottle

(***************************************************************************)
(* The semaphore of _fetch_price (realtime_prices.py:106, 163-212) under   *)
(* more concurrent fetches than it has slots: the fetches a tick gathers   *)
(* and the get_price calls of concurrent requests.                         *)
(***************************************************************************)
\* asyncio.Semaphore(5) (line 106)
price_semaphore_width == 5

MaxFetchers == 6

\* the tasks that call _fetch_price
Fetchers == 1..MaxFetchers

\* value: the semaphore's counter; waiters: its queue of blocked acquires;
\* st: where each task is: "idle" (outside _fetch_price), "waiting" (in
\* acquire), "fetching" (lines 167-196), "sending" (lines 199-202),
\* "backoff" (line 208)
NoSem ==
  [value |-> price_semaphore_width, waiters |-> <<>>, st |-> [p \in Fetchers |-> "idle"]]

Holding == {"fetching", "sending", "backoff"}

\* (a variant that lets every acquire through)
Free_Always(s) == TRUE

\* Semaphore.acquire returns at once when the counter is positive and no
\* earlier acquire is waiting
Free(s) == s.value > 0 /\ s.waiters = <<>>

\* "async with self._semaphore" is left (line 165, __aexit__), by a return or
\* by an exception: the slot is released
Leave(s, p) == [s EXCEPT !.value = @ + 1, !.st[p] = "idle"]

\* line 165: a task enters _fetch_price and takes a slot or waits for one
FP_Enter(p) ==
  /\ sem.st[p] = "idle"
  /\ sem' = IF Free(sem)
            THEN [sem EXCEPT !.value = @ - 1, !.st[p] = "fetching"]
            ELSE [sem EXCEPT !.waiters = Append(@, p), !.st[p] = "waiting"]

\* a release has woken the first waiter: its acquire returns
FP_Resume(p) ==
  /\ sem.st[p] = "waiting"
  /\ sem.waiters # <<>> /\ Head(sem.waiters) = p
  /\ sem.value > 0
  /\ sem' = [sem EXCEPT !.value = @ - 1, !.waiters = Tail(@), !.st[p] = "fetching"]

\* lines 167-212: after the jitter stock.info answers: a quote is cached
\* and broadcast, a rate limit error is followed by a sleep of 5 s, any
\* other error by the return of None
FP_Info(p, out) ==
  /\ sem.st[p] = "fetching"
  /\ sem' = CASE out \in Quotes -> [sem EXCEPT !.st[p] = "sending"]
              [] out = "rate_limit" -> [sem EXCEPT !.st[p] = "backoff"]
              [] OTHER -> Leave(sem, p)

\* lines 204, 209: broadcast has returned, or the sleep of 5 s has ended;
\* _fetch_price returns
FP_Return(p) ==
  /\ sem.st[p] \in {"sending", "backoff"}
  /\ sem' = Leave(sem, p)

\* the task is cancelled (stop() cancels the gathered fetches, a request is
\* dropped): CancelledError is raised at its await; a waiting acquire
\* leaves the queue, a task inside the block releases its slot
FP_Cancel(p) ==
  /\ sem.st[p] # "idle"
  /\ sem' = IF sem.st[p] = "waiting"
            THEN [sem EXCEPT !.waiters = SelectSeq(@, LAMBDA q : q # p), !.st[p] = "idle"]
            ELSE Leave(sem, p)

InitSemIdle == sem = NoSem

(***************************************************************************)
(* The loop tasks created by start_updates (update_manager.py:86-91) and   *)
(* by RealtimePriceManager.start (realtime_prices.py:109-117), and their   *)
(* cancellation by stop_updates (lines 104-114) and stop (lines 119-128).  *)
(***************************************************************************)
MaxTasks == 3

\* the tasks each manager can create, in the order of their creation
TaskIds == 1..MaxTasks

\* no task: None
NoTaskId == 0

\* update_task, polling_task: _update_task, _polling_task (a task or None);
\* um, rt: the state of every task: "unborn", "alive", "cancelling" (cancel()
\* was called, the task has not run since), "ended"; um_stop, rt_stop: where
\* the caller of stop_updates, of stop is; is_running: _is_running
NoLife ==
  [update_task |-> NoTaskId, um |-> [t \in TaskIds |-> "unborn"], um_stop |-> "idle",
   is_running |-> FALSE, polling_task |-> NoTaskId,
   rt |-> [t \in TaskIds |-> "unborn"], rt_stop |-> "idle"]

Unborn(tasks) == {t \in TaskIds : tasks[t] = "unborn"}

\* asyncio.create_task: the next task
Created(tasks) == CHOOSE t \in Unborn(tasks) : \A u \in Unborn(tasks) : t <= u

\* Task.cancel(): a task that has ended is left alone
Cancelled(tasks, t) ==
  IF tasks[t] = "alive" THEN [tasks EXCEPT ![t] = "cancelling"] ELSE tasks

\* (a variant without the test of line 89)
MayStartUpdates_Always(l) == TRUE

\* line 89: "if cls._update_task is None"
MayStartUpdates(l) == l.update_task = NoTaskId

\* start_updates (lines 86-91), called by lifespan (main.py:49) and by the
\* background task of every POST /api/trigger-update (main.py:277-280); a
\* call that finds a task changes nothing
LifeStartUpdates ==
  /\ MayStartUpdates(life)
  /\ Unborn(life.um) # {}
  /\ LET t == Created(life.um)
     IN life' = [life EXCEPT !.update_task = t, !.um[t] = "alive"]

\* stop_updates, lines 107-110: the task is cancelled and awaited
LifeStopUpdates ==
  /\ life.um_stop = "idle"
  /\ life.update_task # NoTaskId
  /\ life' = [life EXCEPT !.um = Cancelled(@, life.update_task), !.um_stop = "awaiting"]

\* the cancelled update loop is resumed and ends (CancelledError is no
\* Exception: update_manager.py:171 lets it pass)
LifeUpdateLoopEnds(t) ==
  /\ life.um[t] = "cancelling"
  /\ life' = [life EXCEPT !.um[t] = "ended"]

\* stop_updates, lines 111-113: the await returns; _update_task = None
LifeStopUpdatesDone ==
  /\ life.um_stop = "awaiting"
  /\ life.um[life.update_task] = "ended"
  /\ life' = [life EXCEPT !.update_task = NoTaskId, !.um_stop = "idle"]

\* realtime_prices.py:111 "if self._is_running: return"
MayStart(l) == ~l.is_running

\* start (lines 109-117); lifespan calls start and stop one after the other
\* (main.py:52, 55), never one during the other
LifeStart ==
  /\ life.rt_stop = "idle"
  /\ MayStart(life)
  /\ Unborn(life.rt) # {}
  /\ LET t == Created(life.rt)
     IN life' = [life EXCEPT !.is_running = TRUE, !.polling_task = t, !.rt[t] = "alive"]

\* stop, lines 121-125: the flag is reset; the task, if there is one, is
\* cancelled and awaited
LifeStop ==
  /\ life.rt_stop = "idle"
  /\ life.polling_task # NoTaskId
  /\ life' = [life EXCEPT !.is_running = FALSE,
                          !.rt = Cancelled(@, life.polling_task),
                          !.rt_stop = "awaiting"]

\* the cancelled polling loop is resumed and ends (lines 157-158, or
\* uncaught from the sleep of line 161)
LifePollingLoopEnds(t) ==
  /\ life.rt[t] = "cancelling"
  /\ life' = [life EXCEPT !.rt[t] = "ended"]

\* stop, lines 125-128: the await returns or raises CancelledError, which
\* is passed over; _polling_task keeps the ended task
LifeStopDone ==
  /\ life.rt_stop = "awaiting"
  /\ life.rt[life.polling_task] = "ended"
  /\ life' = [life EXCEPT !.rt_stop = "idle"]

InitLifeIdle == life = NoLife

(***************************************************************************)
(* MongoManager.update_company_data (database.py:39-61) on documents with  *)
(* their fields, written with the records process_single_stock returns.    *)
(***************************************************************************)
StoreSymbols == {"AAPL", "MSFT"}

\* the records process_single_stock returns for the symbols (lines 823-835)
\* when the primary source answered and the logo was fetched or not
StoreRecords ==
  {[symbol |-> in.symbol, data |-> ProcessSingleStock(in).data] :
     in \in {i \in [symbol : StoreSymbols, yf_data : PrimaryAnswers \ {NoSource},
                    finnhub_data : {NoSource}, logo : {Null, StrVal("iVBORw0KGgo")}] :
               ProcessSingleStock(i).returned = "record"}}

\* no document with the ticker
NoDocument == [k \in {} |-> Null]

\* (a variant that replaces the document by the record)
SetFields_Replace(document, data) == data

\* {"$set": data}: the fields of data are set, the others are left alone
SetFields(document, data) ==
  [k \in DOMAIN document \cup DOMAIN data |->
     IF k \in DOMAIN data THEN data[k] ELSE document[k]]

\* update_one({"ticker": symbol}, {"$set": data}, upsert=True), lines 52-56:
\* a document that does not exist is inserted with the field of the filter
UpdateOne(document, symbol, data) ==
  IF document = NoDocument
  THEN SetFields([k \in {"ticker"} |-> StrVal(symbol)], data)
  ELSE SetFields(document, data)

\* docs: the document of each ticker; last: the last call
NoStore ==
  [docs |-> [t \in StoreSymbols |-> NoDocument],
   last |-> [symbol |-> "AAPL", data |-> NoDocument, returned |-> FALSE]]

\* update_company_data(symbol, data) (lines 50-61), called with a task's
\* record (update_manager.py:466): update_one succeeds and True is
\* returned, or an exception is caught and False is returned
UpdateCompanyData(symbol, data, ok) ==
  store' = [docs |-> IF ok
                     THEN [store.docs EXCEPT ![symbol] = UpdateOne(@, symbol, data)]
                     ELSE store.docs,
            last |-> [symbol |-> symbol, data |-> data, returned |-> ok]]

InitStoreIdle == store = NoStore

(***************************************************************************)
(* Specifications.  The orchestrator, the real-time quotes and the check   *)
(* share no state: each specification moves one of them and leaves the     *)
(* others as they are.                                                     *)
(***************************************************************************)
Init ==
  /\ InitUM /\ InitRT /\ InitCK /\ InitClockIdle /\ InitMergeIdle
  /\ InitFetchIdle /\ InitThrottleIdle /\ InitStoreIdle /\ InitLifeIdle /\ InitSemIdle

UMOnly == UNCHANGED <<rtVars, pureVars, now>>

RTOnly == UNCHANGED <<umVars, pureVars, now>>

Next ==
  \/ StartUpdates /\ UMOnly
  \/ StopCancel /\ UMOnly
  \/ L_Cancelled /\ UMOnly
  \/ StopDone /\ UMOnly
  \/ L_Iter /\ UMOnly
  \/ \E b \in BOOLEAN : L_CheckSymbol(b) /\ UMOnly
  \/ L_Process /\ UMOnly
  \/ L_Fault /\ UMOnly
  \/ \E p \in ApiTasks : \E syms \in ApiInputs : ApiCall(p, syms) /\ UMOnly
  \/ \E p \in ApiTasks : ApiExit(p) /\ UMOnly
  \/ \E p \in Callers : PU_CreateTask(p) /\ UMOnly
  \/ \E p \in Callers : \E j \in 1..batch_size : TaskFinish(p, j) /\ UMOnly
  \/ \E p \in Callers : \E out \in TaskOutcomes : PU_AwaitTask(p, out) /\ UMOnly
  \/ \E p \in Callers : \E ok \in BOOLEAN : PU_Save(p, ok) /\ UMOnly
  \/ \E p \in Callers : PU_NextBatch(p) /\ UMOnly
  \/ \E p \in Callers : PU_Fault(p) /\ UMOnly
  \/ \E p \in Callers : PU_Finally(p) /\ UMOnly

Spec == Init /\ [][Next]_vars

\* the steps a caller takes by itself inside a run, and the steps of the
\* update loop task and of a background task: a task is at one place at a
\* time, so at most one of its steps is enabled
RunStep(p) ==
  \/ PU_CreateTask(p)
  \/ \E out \in TaskOutcomes : PU_AwaitTask(p, out)
  \/ \E ok \in BOOLEAN : PU_Save(p, ok)
  \/ PU_NextBatch(p)
  \/ PU_Finally(p)

LoopStep ==
  \/ L_Iter
  \/ \E b \in BOOLEAN : L_CheckSymbol(b)
  \/ L_Process
  \/ L_Cancelled
  \/ RunStep(Loop)

ApiStep(p) == ApiExit(p) \/ RunStep(p)

\* the event loop resumes every task that can run: a sleep ends, a fetch
\* returns, a cancelled task is resumed.  Requests from outside (ApiCall,
\* StartUpdates, StopCancel) and faults come when they come.
Fairness ==
  /\ WF_vars(LoopStep /\ UMOnly)
  /\ WF_vars(StopDone /\ UMOnly)
  /\ \A p \in ApiTasks : WF_vars(ApiStep(p) /\ UMOnly)
  /\ \A p \in Callers : WF_vars((\E j \in 1..batch_size : TaskFinish(p, j)) /\ UMOnly)

FairSpec == Spec /\ Fairness

(***************************************************************************)
(* One caller's runs followed batch by batch: update_stock_data calls with *)
(* lists of up to MaxRunLen symbols while the update loop is not started.  *)
(***************************************************************************)
RunInputs == UNION {[1..m -> PassedSymbols] : m \in 1..MaxRunLen}

NextRun ==
  \/ \E p \in ApiTasks : \E syms \in RunInputs : ApiCall(p, syms) /\ UMOnly
  \/ \E p \in Callers : PU_CreateTask(p) /\ UMOnly
  \/ \E p \in Callers : \E j \in 1..batch_size : TaskFinish(p, j) /\ UMOnly
  \/ \E p \in Callers : \E out \in TaskOutcomes : PU_AwaitTask(p, out) /\ UMOnly
  \/ \E p \in Callers : \E ok \in BOOLEAN : PU_Save(p, ok) /\ UMOnly
  \/ \E p \in Callers : PU_NextBatch(p) /\ UMOnly
  \/ \E p \in Callers : PU_Fault(p) /\ UMOnly
  \/ \E p \in Callers : PU_Finally(p) /\ UMOnly

SpecRun == Init /\ [][NextRun]_vars

(***************************************************************************)
(* The update loop alone while the wall clock advances: start_updates,     *)
(* the iterations of _update_loop and their runs, stop_updates.            *)
(***************************************************************************)
\* a second passes
NowTick ==
  /\ now < MaxNow
  /\ now' = now + 1
  /\ UNCHANGED <<umVars, rtVars, pureVars>>

NextCycle ==
  \/ NowTick
  \/ StartUpdates /\ UMOnly
  \/ StopCancel /\ UMOnly
  \/ L_Cancelled /\ UMOnly
  \/ StopDone /\ UMOnly
  \/ L_Iter /\ UMOnly
  \/ \E b \in BOOLEAN : L_CheckSymbol(b) /\ UMOnly
  \/ L_Process /\ UMOnly
  \/ L_Fault /\ UMOnly
  \/ PU_CreateTask(Loop) /\ UMOnly
  \/ \E j \in 1..batch_size : TaskFinish(Loop, j) /\ UMOnly
  \/ \E out \in TaskOutcomes : PU_AwaitTask(Loop, out) /\ UMOnly
  \/ \E ok \in BOOLEAN : PU_Save(Loop, ok) /\ UMOnly
  \/ PU_NextBatch(Loop) /\ UMOnly
  \/ PU_Fault(Loop) /\ UMOnly
  \/ PU_Finally(Loop) /\ UMOnly

SpecCycle == Init /\ [][NextCycle]_vars

(***************************************************************************)
(* The two loops of the service on their event loop: the update loop with  *)
(* its runs, and the polling loop with its fetches for one connection.     *)
(***************************************************************************)
NextLoops ==
  \/ StartUpdates /\ UMOnly
  \/ StopCancel /\ UMOnly
  \/ L_Cancelled /\ UMOnly
  \/ StopDone /\ UMOnly
  \/ L_Iter /\ UMOnly
  \/ \E b \in BOOLEAN : L_CheckSymbol(b) /\ UMOnly
  \/ L_Process /\ UMOnly
  \/ L_Fault /\ UMOnly
  \/ PU_CreateTask(Loop) /\ UMOnly
  \/ \E j \in 1..batch_size : TaskFinish(Loop, j) /\ UMOnly
  \/ \E out \in TaskOutcomes : PU_AwaitTask(Loop, out) /\ UMOnly
  \/ \E ok \in BOOLEAN : PU_Save(Loop, ok) /\ UMOnly
  \/ PU_NextBatch(Loop) /\ UMOnly
  \/ PU_Fault(Loop) /\ UMOnly
  \/ PU_Finally(Loop) /\ UMOnly
  \/ \E raw \in RawTickers : Subscribe(raw, "ws1") /\ RTOnly
  \/ RTStart /\ RTOnly
  \/ RTStop /\ RTOnly
  \/ PollEnd /\ RTOnly
  \/ RTStopReturn /\ RTOnly
  \/ PollTick /\ RTOnly
  \/ PollFault /\ RTOnly
  \/ \E p \in Pollers : \E out \in FetchOutcomes : Fetch(p, out) /\ RTOnly
  \/ \E p \in Pollers : Backoff(p) /\ RTOnly
  \/ \E p \in Pollers : \E ok \in BOOLEAN : Send(p, "ws1", ok) /\ RTOnly
  \/ \E p \in Pollers : FetchDone(p) /\ RTOnly

SpecLoops == Init /\ [][NextLoops]_vars

(***************************************************************************)
(* The real-time quotes: connections subscribe and unsubscribe, get_price  *)
(* is called, the polling loop ticks, time passes.                         *)
(***************************************************************************)
NextRT ==
  \/ \E raw \in RawTickers : \E ws \in Conns : Subscribe(raw, ws) /\ RTOnly
  \/ \E raw \in RawTickers : \E ws \in Conns : Unsubscribe(raw, ws) /\ RTOnly
  \/ Tick /\ RTOnly
  \/ RTStart /\ RTOnly
  \/ RTStop /\ RTOnly
  \/ PollEnd /\ RTOnly
  \/ RTStopReturn /\ RTOnly
  \/ PollTick /\ RTOnly
  \/ PollFault /\ RTOnly
  \/ \E p \in Getters : \E raw \in RawTickers : GetPrice(p, raw) /\ RTOnly
  \/ \E p \in FetchTasks : \E out \in FetchOutcomes : Fetch(p, out) /\ RTOnly
  \/ \E p \in FetchTasks : Backoff(p) /\ RTOnly
  \/ \E p \in FetchTasks : \E ws \in Conns : \E ok \in BOOLEAN : Send(p, ws, ok) /\ RTOnly
  \/ \E p \in FetchTasks : FetchDone(p) /\ RTOnly

SpecRT == Init /\ [][NextRT]_vars

(***************************************************************************)
(* The check evaluated on every input of CheckInputs.                      *)
(***************************************************************************)
InitCheck ==
  /\ InitUM
  /\ InitRT
  /\ check \in [input : CheckInputs, result : {"pending"}]
  /\ InitClockIdle
  /\ InitMergeIdle
  /\ InitFetchIdle
  /\ InitThrottleIdle
  /\ InitStoreIdle
  /\ InitLifeIdle
  /\ InitSemIdle

NextCheck == CheckSymbol /\ UNCHANGED <<umVars, rtVars, clock, merge, fetch, throttle, sem, life, store, now>>

SpecCheck == InitCheck /\ [][NextCheck]_vars

(***************************************************************************)
(* The market status at every day and time of TimesOfDay.                  *)
(***************************************************************************)
InitClock ==
  /\ InitUM
  /\ InitRT
  /\ InitCK
  /\ clock \in [day : Weekdays, time : TimesOfDay, status : {"pending"}]
  /\ InitMergeIdle
  /\ InitFetchIdle
  /\ InitThrottleIdle
  /\ InitStoreIdle
  /\ InitLifeIdle
  /\ InitSemIdle

NextClock == ReadClock /\ UNCHANGED <<umVars, rtVars, check, merge, fetch, throttle, sem, life, store, now>>

SpecClock == InitClock /\ [][NextClock]_vars

(***************************************************************************)
(* The merge on every input of MergeInputs.                                *)
(***************************************************************************)
InitMerge ==
  /\ InitUM
  /\ InitRT
  /\ InitCK
  /\ InitClockIdle
  /\ merge \in [input : MergeInputs, result : {NoMergeResult}]
  /\ InitFetchIdle
  /\ InitThrottleIdle
  /\ InitStoreIdle
  /\ InitLifeIdle
  /\ InitSemIdle

NextMerge == Merge /\ UNCHANGED <<umVars, rtVars, check, clock, fetch, throttle, sem, life, store, now>>

SpecMerge == InitMerge /\ [][NextMerge]_vars

(***************************************************************************)
(* One process_single_stock task for every answer of the three sources.    *)
(* The event loop resumes the task whenever a call of it has returned.     *)
(***************************************************************************)
InitFetch ==
  /\ InitUM
  /\ InitRT
  /\ InitCK
  /\ InitClockIdle
  /\ InitMergeIdle
  /\ fetch \in {NewTask(symbol) : symbol \in TaskSymbols}
  /\ InitThrottleIdle
  /\ InitStoreIdle
  /\ InitLifeIdle
  /\ InitSemIdle

FetchStep ==
  \/ \E answer \in PrimaryAnswers : YfAttempt(FALSE, answer)
  \/ YfAttempt(TRUE, NoSource)
  \/ YfBackoff
  \/ \E answer \in SecondaryAnswers : FinnhubCall(answer)
  \/ \E answer \in {Null, StrVal("iVBORw0KGgo")} : LogoCall(answer)

NextFetch == FetchStep /\ UNCHANGED <<umVars, rtVars, check, clock, merge, throttle, sem, life, store, now>>

SpecFetch == InitFetch /\ [][NextFetch]_vars /\ WF_vars(NextFetch)

(***************************************************************************)
(* The throttle under requests for any symbol at any time.                 *)
(***************************************************************************)
ThrottleOnly == UNCHANGED <<umVars, rtVars, check, clock, merge, fetch, sem, life, store, now>>

NextThrottle ==
  \/ NowTick
  \/ \E symbol \in PassedSymbols : ThrottleCheck(symbol) /\ ThrottleOnly
  \/ ThrottleWake /\ ThrottleOnly

SpecThrottle == Init /\ [][NextThrottle]_vars

(***************************************************************************)
(* MaxFetchers tasks calling _fetch_price.                                 *)
(***************************************************************************)
SemStep ==
  \/ \E p \in Fetchers : FP_Enter(p)
  \/ \E p \in Fetchers : FP_Resume(p)
  \/ \E p \in Fetchers : \E out \in FetchOutcomes : FP_Info(p, out)
  \/ \E p \in Fetchers : FP_Return(p)
  \/ \E p \in Fetchers : FP_Cancel(p)

NextSem == SemStep /\ UNCHANGED <<umVars, rtVars, check, clock, merge, fetch, throttle, life, store, now>>

SpecSem == Init /\ [][NextSem]_vars

(***************************************************************************)
(* Every order of start_updates, stop_updates, start and stop calls.       *)
(***************************************************************************)
LifeStep ==
  \/ LifeStartUpdates
  \/ LifeStopUpdates
  \/ \E t \in TaskIds : LifeUpdateLoopEnds(t)
  \/ LifeStopUpdatesDone
  \/ LifeStart
  \/ LifeStop
  \/ \E t \in TaskIds : LifePollingLoopEnds(t)
  \/ LifeStopDone

NextLife == LifeStep /\ UNCHANGED <<umVars, rtVars, check, clock, merge, fetch, throttle, sem, store, now>>

SpecLife == Init /\ [][NextLife]_vars

(***************************************************************************)
(* Subscriptions, unsubscriptions and the broadcasts of get_price with     *)
(* connections whose send_json always returns: only unsubscribe removes a  *)
(* connection from the registry.                                           *)
(***************************************************************************)
NextBroadcast ==
  \/ \E raw \in RawTickers : \E ws \in Conns : Subscribe(raw, ws) /\ RTOnly
  \/ \E raw \in RawTickers : \E ws \in Conns : Unsubscribe(raw, ws) /\ RTOnly
  \/ Tick /\ RTOnly
  \/ \E p \in Getters : \E raw \in RawTickers : GetPrice(p, raw) /\ RTOnly
  \/ \E p \in Getters : \E out \in Quotes : Fetch(p, out) /\ RTOnly
  \/ \E p \in Getters : \E ws \in Conns : Send(p, ws, TRUE) /\ RTOnly
  \/ \E p \in Getters : FetchDone(p) /\ RTOnly

SpecBroadcast == Init /\ [][NextBroadcast]_vars

(***************************************************************************)
(* Every sequence of writes of returned records.                           *)
(***************************************************************************)
NextStore ==
  /\ \E r \in StoreRecords : \E ok \in BOOLEAN : UpdateCompanyData(r.symbol, r.data, ok)
  /\ UNCHANGED <<umVars, rtVars, check, clock, merge, fetch, throttle, sem, life, now>>

SpecStore == Init /\ [][NextStore]_vars

TypeOK ==
  /\ is_updating \in BOOLEAN
  /\ Len(force_refresh_symbols) <= MaxQueue
  /\ update_task \in {"none", "alive", "cancelling"}

(***************************************************************************)
(* Claims about the batch update orchestrator.                             *)
(***************************************************************************)
AtMostOneRun == Cardinality({p \in Callers : InRun(p)}) <= 1

\* a step in which a task calls _process_updates while a run is active
C1_RejectedCallOnlyQueues ==
  /\ \A p \in ApiTasks :
       (is_updating /\ pc[p] = "idle" /\ pc'[p] # "idle")
         => /\ pc'[p] = "rejected"
            /\ call'[p].symbols # <<>>
            /\ force_refresh_symbols' = force_refresh_symbols \o call'[p].symbols
            /\ UNCHANGED <<is_updating, run, storage>>
  /\ (is_updating /\ pc[Loop] \in {"l_sleep", "l_cooldown"}
        /\ pc'[Loop] \notin {pc[Loop], "dead"})
       => /\ pc'[Loop] = "l_check"
          /\ force_refresh_symbols' = force_refresh_symbols
          /\ UNCHANGED <<is_updating, run, storage>>
  /\ (is_updating /\ pc[Loop] = "l_check" /\ needing.ci > Len(AllSymbols)
        /\ pc'[Loop] \notin {"l_check", "dead"})
       => /\ pc'[Loop] = "l_sleep"
          /\ force_refresh_symbols' = force_refresh_symbols \o needing.list
          /\ UNCHANGED <<is_updating, run, storage>>

\* C1: at most one _process_updates call is inside the batch-processing
\* section at any time, whatever the interleaving of the update loop and the
\* update_stock_data tasks; a call that finds _is_updating true appends its
\* symbols to _force_refresh_symbols and returns: it starts no run, creates
\* no fetch task and writes nothing.
C1_AtMostOneRun == [](AtMostOneRun) /\ [][C1_RejectedCallOnlyQueues]_vars

\* a background call has been rejected while the update loop's run is active
C1_Witness ==
  /\ is_updating
  /\ InRun(Loop)
  /\ pc["api1"] = "rejected"
  /\ force_refresh_symbols # <<>>

\* the update loop is inside a run on the symbols it took from the queue
ForcedRunActive == InRun(Loop) /\ call[Loop].kind = "forced"

\* a step never takes a symbol out of _force_refresh_symbols, except the
\* update loop's step that hands the whole list to a run that is accepted;
\* and a rejected call's symbols are appended
C2_NoDropStep ==
  /\ \/ IsPrefix(force_refresh_symbols, force_refresh_symbols')
     \/ /\ force_refresh_symbols' = <<>>
        /\ ~ForcedRunActive
        /\ ForcedRunActive'
        /\ call'[Loop].symbols = force_refresh_symbols
  /\ \A p \in ApiTasks :
       (pc[p] = "idle" /\ pc'[p] = "rejected")
         => force_refresh_symbols' = force_refresh_symbols \o call'[p].symbols
  /\ (is_updating /\ pc[Loop] = "l_check" /\ needing.ci > Len(AllSymbols)
        /\ pc'[Loop] = "l_sleep")
       => force_refresh_symbols' = force_refresh_symbols \o needing.list

LoopKeepsRunning == <>[](update_task = "alive")

NoBackgroundRuns == <>[](\A p \in ApiTasks : ~InRun(p))

C3_FlagAlwaysReset ==
  /\ [](is_updating => \E p \in Callers : InRun(p))
  /\ [][\A p \in Callers : (pc[p] = "finally" /\ pc'[p] # "finally") => ~is_updating']_vars
  /\ is_updating ~> ~is_updating

\* a cancelled run has ended, the flag is false and a new call is accepted
C3_Witness ==
  /\ pc[Loop] = "cancelled"
  /\ ~is_updating
  /\ ENABLED (\E syms \in ApiInputs : ApiCall("api1", syms) /\ is_updating')

\* C4: a task that raises is counted once, as failed, and the run goes on:
\* at every point of a run each task awaited so far has been counted exactly
\* once, every record has been handed to update_company_data, and a run
\* that reaches the end of its batch loop has counted every symbol of its
\* input.
C4_RaiseIsolated ==
  \A p \in Callers :
    InRun(p) =>
      LET r == run[p]
          counted == r.successful_updates + r.failed_updates
      IN /\ r.raised <= r.failed_updates
         /\ r.written = r.successful_updates
         /\ r.end \in {"none", "normal"} =>
              /\ pc[p] = "create" => counted = r.i
              /\ pc[p] \in {"await", "save"} => counted = r.i + r.k - 1
              /\ pc[p] = "cooldown" => counted = r.i + Len(r.tasks)
              /\ pc[p] = "finally" => counted = Len(call[p].symbols)
         /\ r.end = "fault" => pc[p] = "finally" /\ counted = r.i

\* a run of two batches has ended normally; one task of it raised, and every
\* other symbol was written and counted
C4_Witness ==
  \E p \in Callers :
    /\ pc[p] = "finally"
    /\ run[p].end = "normal"
    /\ Len(call[p].symbols) > batch_size
    /\ run[p].raised = 1
    /\ run[p].failed_updates = 1
    /\ run[p].successful_updates = Len(call[p].symbols) - 1
    /\ run[p].written = Len(call[p].symbols) - 1

(***************************************************************************)
(* Claims about the real-time quotes.                                      *)
(***************************************************************************)
\* C5 as claimed: every ticker get_active_tickers returns has at least one
\* connection in its subscriber set, after any interleaving of subscribe,
\* unsubscribe and broadcast, failed sends included: no registry entry with
\* an empty set is ever observable.
C5_NoEmptyEntry == \A t \in ActiveTickers : subscriptions[t] # {}

\* a step in which a broadcast that has sent to connections ends
C6_BroadcastEnds ==
  \A p \in FetchTasks :
    (fpc[p] = "sending" /\ fpc'[p] = "returned")
      => LET r == ft'[p]
         IN /\ r.broadcast = "returned"
            /\ r.result = [what |-> "quote_data", quote |-> r.quote]
            /\ r.todo = {}
            /\ r.sent = r.connections \ r.disconnected
            /\ r.disconnected \cap Subscribers(subscriptions', r.ticker) = {}

\* C6: when send_json raises for a connection, broadcast still sends the
\* message to every other connection of the subscriber set it read, removes
\* the failing connection from the ticker's set, and raises nothing to its
\* caller: _fetch_price returns the quote.
C6_SendFailureIsolated ==
  /\ [](\A p \in FetchTasks : ft[p].broadcast # "raised")
  /\ [][C6_BroadcastEnds]_vars

\* a broadcast to two connections has ended: the send to one raised and that
\* connection is gone from the ticker's set, the other got the message
C6_Witness ==
  \E p \in FetchTasks :
    /\ fpc[p] = "returned"
    /\ ft[p].broadcast = "returned"
    /\ ft[p].connections = Conns
    /\ Cardinality(ft[p].disconnected) = 1
    /\ Cardinality(ft[p].sent) = 1
    /\ ft[p].ticker \in ActiveTickers
    /\ subscriptions[ft[p].ticker] = ft[p].sent

\* a step in which broadcast is called for a ticker without subscribers
C7_BroadcastWithoutSubscribers ==
  \A p \in FetchTasks :
    (/\ fpc[p] = "fetching"
     /\ ft'[p].quote # None
     /\ Subscribers(subscriptions, ft[p].ticker) = {})
      => /\ subscriptions' = subscriptions
         /\ DOMAIN subscriptions' = ActiveTickers
         /\ fpc'[p] = "returned"
         /\ ft'[p].connections = {}
         /\ ft'[p].sent = {}
         /\ ft'[p].todo = {}

\* C7: broadcast for a ticker that has no subscribers sends no message and
\* leaves the registry as it is: it creates no entry for the ticker, and
\* get_active_tickers returns the same set before and after.
C7_NoSubscribersNoEffect == [][C7_BroadcastWithoutSubscribers]_vars

\* a fetched quote was broadcast for a ticker nobody subscribes to, and the
\* registry has no entry for it
C7_Witness ==
  \E p \in FetchTasks :
    /\ fpc[p] = "returned"
    /\ ft[p].broadcast = "returned"
    /\ ft[p].quote # None
    /\ ft[p].connections = {}
    /\ ft[p].ticker \notin ActiveTickers

\* what a get_price call has done when it returns
C8_OnReturn ==
  \A p \in Getters :
    /\ ft[p].fetches <= 1
    /\ fpc[p] = "returned" =>
         IF ft[p].seen.quote # None /\ ft[p].seen.age < 5
         THEN /\ ft[p].fetches = 0
              /\ ft[p].result = [what |-> "cached", quote |-> ft[p].seen.quote]
         ELSE ft[p].fetches = 1

\* get_price reads the entry of the upper-cased ticker, a returned entry
\* leaves the cache alone, and a fetched quote is written to the cache
C8_Steps ==
  \A p \in Getters :
    /\ (fpc[p] = "idle" /\ fpc'[p] # "idle")
         => /\ ft'[p].seen = cache[ft'[p].ticker]
            /\ cache' = cache
    /\ (fpc[p] = "fetching" /\ ft'[p].quote # None)
         => cache'[ft[p].ticker] = [quote |-> ft'[p].quote, age |-> 0]

\* C8: get_price returns the cached entry without an upstream fetch when the
\* entry's age is below 5 seconds; when the entry is absent or 5 seconds old
\* or older the call makes exactly one upstream fetch, and writes the result
\* to the cache when the fetch succeeds.
C8_FreshOrOneFetch == [](C8_OnReturn) /\ [][C8_Steps]_vars

\* get_price found an entry that was 5 seconds old, fetched once, and the
\* cache holds the fetched quote
C8_Witness ==
  \E p \in Getters :
    /\ fpc[p] = "returned"
    /\ ft[p].seen.quote # None
    /\ ft[p].seen.age = 5
    /\ ft[p].fetches = 1
    /\ ft[p].result = [what |-> "quote_data", quote |-> ft[p].quote]
    /\ cache[ft[p].ticker].quote = ft[p].quote

(***************************************************************************)
(* Claims about _check_symbol_for_updates.                                 *)
(***************************************************************************)
\* C9: the check returns True whenever there is no stored record, and
\* whenever the stored record has no last_updated, for every market status
\* and whatever the other fields of the record are.
C9_ColdSymbolNeedsUpdate ==
  (/\ check.result # "pending"
   /\ check.input.db = "absent" \/ check.input.last_updated = "absent")
    => check.result = "True"

\* a record without last_updated that every other test would have skipped
C9_Witness ==
  /\ check.result = "True"
  /\ check.input.db = "record"
  /\ check.input.last_updated = "absent"
  /\ check.input.status = PRE_MARKET
  /\ check.input.market_status = PRE_MARKET
  /\ check.input.image
  /\ check.input.statements = "same_hash"

\* the staleness budget of each market status, in seconds
C10_Budget(s) ==
  CASE s = CLOSED -> 86400
    [] s = PRE_MARKET -> 900
    [] s = OPEN -> 300
    [] s = AFTER_HOURS -> 1800

C10_NoDrift(d) ==
  ~(/\ d.history = "rows"
    /\ Comparable(d)
    /\ \/ 1000 * Abs(d.latest_price - d.price) > d.price
       \/ 100 * d.latest_volume > 105 * d.volume)

\* C10: for every market status, a stored record whose age is below the
\* status's budget and whose market_status is the current status is not
\* scheduled when there is no price/volume drift and no hash mismatch: the
\* check returns False.
C10_WithinBudgetSkipped ==
  (/\ check.result # "pending"
   /\ check.input.db = "record"
   /\ check.input.last_updated = "datetime"
   /\ check.input.age < C10_Budget(check.input.status)
   /\ check.input.market_status = check.input.status
   /\ C10_NoDrift(check.input)
   /\ check.input.statements # "new_hash")
    => check.result = "False"

\* a record one second inside the open-market budget is skipped although it
\* has no logo
C10_Witness ==
  /\ check.result = "False"
  /\ check.input.status = OPEN
  /\ check.input.age = 299
  /\ check.input.market_status = OPEN
  /\ ~check.input.image
  /\ C10_NoDrift(check.input)
  /\ check.input.statements = "same_hash"

(***************************************************************************)
(* Claims about the market status.                                         *)
(***************************************************************************)
\* the status the sessions give a weekday's time of day, in seconds since
\* midnight: 04:00 is 14400, 09:30 is 34200, 16:00 is 57600, 20:00 is 72000
C11_Session(t) ==
  IF 14400 <= t /\ t < 34200 THEN "pre_market"
  ELSE IF 34200 <= t /\ t < 57600 THEN "open"
  ELSE IF 57600 <= t /\ t < 72000 THEN "after_hours"
  ELSE "closed"

\* C11: Monday to Friday the status is PRE_MARKET for 04:00 <= t < 09:30,
\* OPEN for 09:30 <= t < 16:00, AFTER_HOURS for 16:00 <= t < 20:00 and
\* CLOSED at every other time, each boundary belonging to the interval it
\* opens; on Saturday and Sunday it is CLOSED at every time.
C11_SessionsPartitionTheDay ==
  clock.status # "pending"
    => clock.status = IF clock.day \in {5, 6} THEN "closed" ELSE C11_Session(clock.time)

\* the status of Wednesday 09:30:00 has been computed: the market is open
C11_Witness ==
  /\ clock.day = 2
  /\ clock.time = 34200
  /\ clock.status = "open"

(***************************************************************************)
(* Claims about the merge of process_single_stock.                         *)
(***************************************************************************)
\* the merged value of field f, None when the key was removed
Merged(f) == IF f \in DOMAIN merge.result.data THEN merge.result.data[f] ELSE Null

\* the value first-non-null-wins gives field f: Yahoo's unless it is None
Preferred(f) ==
  LET primary == FieldOf(merge.input.yf_data, f)
      secondary == FieldOf(merge.input.finnhub_data, f)
  IN IF primary # Null THEN primary ELSE secondary

Supplied ==
  Cardinality({f \in YfFields : \/ FieldOf(merge.input.yf_data, f) # Null
                                \/ FieldOf(merge.input.finnhub_data, f) # Null})
    + (IF merge.input.logo # Null THEN 1 ELSE 0)

\* C13: process_single_stock returns no record when the sources together
\* supply fewer than 5 non-null fields.
C13_SparseMergeReturnsNone ==
  merge.result.returned = "record" => Supplied >= min_fields

(***************************************************************************)
(* Claims about a cycle of the update loop and about what a run writes.    *)
(***************************************************************************)
\* the symbol the update loop is checking
Checked == AllSymbols[needing.ci]

\* the task whose result the loop's run is handling
Handled == run[Loop].tasks[run[Loop].k]

C15_UppercaseTickers ==
  \A k \in PassedSymbols :
    storage[k].kind = "doc" => k = Upper(k) /\ storage[k].ticker = Upper(k)

\* the task whose result the run of p is handling
HandledBy(p) == run[p].tasks[run[p].k]

\* C19: a step in which update_company_data fails to write the record of a
\* symbol that has no document counts the symbol as failed and not as
\* successful.
C19_FailedWriteCountedFailed ==
  [][\A p \in Callers :
       (/\ pc[p] = "save"
        /\ pc'[p] \in {"await", "cooldown"}
        /\ storage[HandledBy(p).sym].kind = "absent"
        /\ storage' = storage)
       => /\ run'[p].failed_updates = run[p].failed_updates + 1
          /\ run'[p].successful_updates = run[p].successful_updates
    ]_vars

\* C20: a step in which a run finds that the task of a symbol returned no
\* record writes nothing to storage and counts the symbol as failed; a
\* stored document changes only in the write of a returned record for its
\* own symbol.
C20_NoRecordNoWrite ==
  [][\A p \in Callers :
       /\ (/\ pc[p] = "await"
           /\ pc'[p] = "cooldown" \/ (pc'[p] = "await" /\ run'[p].k = run[p].k + 1)
           /\ run'[p].raised = run[p].raised)
          => /\ storage' = storage
             /\ run'[p].failed_updates = run[p].failed_updates + 1
             /\ run'[p].successful_updates = run[p].successful_updates
             /\ run'[p].written = run[p].written
       /\ \A s \in PassedSymbols :
            storage'[s] # storage[s]
            => \E q \in Callers : pc[q] = "save" /\ HandledBy(q).sym = s
    ]_vars

\* a run has found no record for the only symbol of its batch, whose
\* document of an earlier run is still stored
C20_Witness ==
  \E p \in Callers :
    /\ pc[p] = "cooldown"
    /\ Len(run[p].tasks) = 1
    /\ run[p].failed_updates = 1
    /\ run[p].raised = 0
    /\ run[p].written = 0
    /\ storage[run[p].tasks[1].sym].kind = "doc"

(***************************************************************************)
(* Claims about the polling loop.                                          *)
(***************************************************************************)
\* the fetch task p of the polling loop has finished its broadcast
PollBroadcastOver(p) ==
  /\ ft[p].kind = "poll"
  /\ ft[p].broadcast = "returned"

\* C16: every fetch of the polling loop that gets a quote writes it to the
\* cache with a new timestamp, also when the cache holds the same quote, and
\* starts a broadcast of it to the connections subscribed at that moment;
\* when the broadcast is over, send_json has been called once for each of
\* them.
C16_EveryPollWritesAndBroadcasts ==
  [][\A p \in Pollers :
       /\ (fpc[p] = "fetching" /\ fpc'[p] \notin {"fetching", "idle"} /\ ft'[p].quote # None)
          => /\ cache'[p] = [quote |-> ft'[p].quote, age |-> 0]
             /\ ft'[p].connections = Subscribers(subscriptions, p)
             /\ ft'[p].connections # {} => fpc'[p] = "sending" /\ ft'[p].todo = ft'[p].connections
             /\ ft'[p].connections = {} => fpc'[p] = "returned"
       /\ (fpc[p] = "sending" /\ fpc'[p] = "sending" /\ ft'[p] # ft[p])
          => \E ws \in ft[p].todo :
               /\ ft'[p].todo = ft[p].todo \ {ws}
               /\ ft'[p].sent \cup ft'[p].disconnected = ft[p].sent \cup ft[p].disconnected \cup {ws}
       /\ PollBroadcastOver(p)'
          => /\ ft'[p].todo = {}
             /\ ft'[p].sent \cup ft'[p].disconnected = ft'[p].connections
             /\ ft'[p].sent \cap ft'[p].disconnected = {}
    ]_vars

\* a poll has fetched the quote that the cache held from an earlier fetch
\* (a get_price call read it, found it stale and has yet to fetch), has
\* written it again and is sending it to the two subscribers
C16_Witness ==
  \E p \in Pollers : \E g \in Getters :
    /\ fpc[p] = "sending"
    /\ ft[p].quote = "q1"
    /\ ft[p].connections = Conns
    /\ cache[p] = [quote |-> "q1", age |-> 0]
    /\ fpc[g] = "fetching"
    /\ ft[g].fetches = 0
    /\ ft[g].seen.quote = "q1"
    /\ ft[g].seen.age = MaxAge

\* C18: stop() cancels the polling task and waits; it returns only when
\* the task has ended, and returns normally; and while the manager is
\* stopped no fetch task of the polling loop exists, so that every quote
\* written to the cache then is written by a get_price call.
C18_StopAwaitsTheTask ==
  [][/\ (is_running /\ ~is_running')
        => /\ ploop' = "cancelling"
           /\ stop_pc' = "awaiting"
     /\ (stop_pc = "awaiting" /\ stop_pc' # "awaiting")
        => /\ ploop = "ended"
           /\ stop_pc' = "idle"
     /\ ~is_running'
        => /\ ploop' \in {"none", "cancelling", "ended"}
           /\ \A p \in Pollers : fpc'[p] = "idle" /\ ft'[p].kind = "none"
     /\ ~is_running
        => \A t \in Tickers :
             (cache'[t] # cache[t] /\ cache'[t].age = 0)
             => \E g \in Getters : /\ fpc[g] = "fetching"
                                   /\ ft[g].ticker = t
                                   /\ ft'[g].quote = cache'[t].quote
    ]_vars

\* stop() has returned after the loop had polled for a subscriber; the
\* subscription is still there and the cached quote has aged unrefreshed
C18_Witness ==
  /\ ~is_running
  /\ stop_pc = "idle"
  /\ ploop = "ended"
  /\ ActiveTickers # {}
  /\ \E t \in ActiveTickers : cache[t].quote # None /\ cache[t].age = MaxAge

(***************************************************************************)
(* Claims about the two loops.                                             *)
(***************************************************************************)
\* C17: neither loop ends because of an exception.  An iteration of the
\* update loop that raises is followed by the sleep of 60 s, an iteration of
\* the polling loop that raises by the sleep of 5 s, and from that sleep the
\* loop goes on to its next iteration; a failed fetch, write or send ends
\* neither; the update loop's task ends only once stop_updates has cancelled
\* it and the polling loop's only once stop() has.
C17_LoopsSurviveExceptions ==
  [][/\ (pc[Loop] \notin {"dead", "cancelled"} /\ pc'[Loop] \in {"dead", "cancelled"})
        => update_task = "cancelling"
     /\ (/\ pc[Loop] = "l_check"
         /\ needing.ci \in 1..Len(AllSymbols)
         /\ needing'.ci = 0
         /\ update_task' = "alive")
        => /\ pc'[Loop] = "l_cooldown"
           /\ LoopSeconds(pc'[Loop]) = 60
     /\ (pc[Loop] = "l_cooldown" /\ pc'[Loop] # "l_cooldown" /\ update_task = "alive")
        => pc'[Loop] \in {"l_check", "create"}
     /\ (ploop # "ended" /\ ploop' = "ended") => ploop = "cancelling"
     /\ (ploop # "cancelling" /\ ploop' = "cancelling") => is_running /\ ~is_running'
     /\ (/\ ploop \in {"created", "idle_sleep", "poll_sleep"}
         /\ ploop' \notin {ploop, "idle_sleep", "gather", "cancelling"})
        => /\ ploop' = "cooldown"
           /\ Seconds(ploop') = 5
     /\ (ploop = "cooldown" /\ ploop' # "cooldown")
        => ploop' \in {"idle_sleep", "gather", "cancelling"}
     /\ (ploop = "gather" /\ ploop' # "gather") => ploop' \in {"poll_sleep", "cancelling"}
    ]_vars

\* both loops are in the sleep that follows an exception, and both tasks
\* are alive
C17_Witness ==
  /\ update_task = "alive"
  /\ pc[Loop] = "l_cooldown"
  /\ is_running
  /\ ploop = "cooldown"
  /\ ActiveTickers # {}

(***************************************************************************)
(* Further claims about _check_symbol_for_updates.                         *)
(***************************************************************************)
\* the check has been evaluated on a stored record with a last_updated
CheckedStored ==
  /\ check.result # "pending"
  /\ check.input.db = "record"
  /\ check.input.last_updated = "datetime"

\* C27: a stored record whose age is at or above the staleness budget of
\* the current market status is scheduled: the check returns True.
C27_StaleNeverSkipped ==
  (CheckedStored /\ check.input.age >= C10_Budget(check.input.status))
    => check.result = "True"

\* C28: a stored record with a last_updated whose market_status differs
\* from the current market status is scheduled, for every current status
\* and every age.
C28_TransitionRefreshes ==
  (CheckedStored /\ check.input.market_status # check.input.status)
    => check.result = "True"

\* C29: while the market is open, a stored record younger than 300 s is
\* scheduled when the live price differs from the stored price by more than
\* 0.1% or the live volume is more than 5% above the stored volume.
C29_DriftForcesRefresh ==
  (/\ CheckedStored
   /\ check.input.status = OPEN
   /\ check.input.age < 300
   /\ ~C10_NoDrift(check.input))
    => check.result = "True"

\* C30: a stored record without an image is scheduled, for every market
\* status and every age.
C30_MissingLogoRefreshes ==
  (check.result # "pending" /\ check.input.db = "record" /\ ~check.input.image)
    => check.result = "True"

C22_ExhaustedIsFailure ==
  (fetch.pc = "done" /\ fetch.exhausted) => fetch.result.returned # "record"

Price(src) == FieldOf(src, "price")

InFlight(p) == {j \in 1..Len(run[p].tasks) : run[p].tasks[j].st = "pending"}

\* C24 (as stated): at no time are more than semaphore_width (2)
\* process_single_stock tasks of a run in flight.
C24_AtMostTwoInFlight ==
  \A p \in Callers : Cardinality(InFlight(p)) <= semaphore_width

\* the symbols of p's run whose outcome has been recorded
Counted(p) == run[p].successful_updates + run[p].failed_updates

\* C26: batches follow one another: while a run creates, awaits or stores
\* the tasks of the batch at offset i, the outcome of each of the i symbols
\* before it has been counted (every task of the earlier batches was
\* awaited), and a step that begins a batch leaves behind a batch all of
\* whose tasks have ended and have been handled.
C26_BatchesSequential ==
  [][/\ \A p \in Callers :
         pc'[p] \in {"create", "await", "save"} =>
           /\ Counted(p)' >= run'[p].i
           /\ pc'[p] = "create" => Counted(p)' = run'[p].i
     /\ \A p \in Callers :
         run'[p].i > run[p].i =>
           /\ pc[p] = "cooldown"
           /\ InFlight(p) = {}
           /\ run[p].k = Len(run[p].tasks)
           /\ Counted(p) = run'[p].i]_vars

\* a task of the second batch exists after the three of the first were recorded
C26_Witness ==
  \E p \in Callers :
    /\ run[p].i = batch_size
    /\ InFlight(p) # {}
    /\ Counted(p) = batch_size

\* C25 (as stated): the tasks created for one symbol, in one run or in
\* several, are at least MIN_REQUEST_INTERVAL (2 s) apart, also when the
\* earlier of two was delayed by the throttle.
C25_MinInterval ==
  \A s \in DOMAIN throttle.previous :
    throttle.started[s] - throttle.previous[s] >= MIN_REQUEST_INTERVAL

\* C31 (as stated): a stored record whose freshly fetched financial
\* statements are not empty and hash to something else than the stored
\* financial_data_hash is reported as needing an update.
C31_NewHashRefreshes ==
  (CheckedStored /\ check.input.statements = "new_hash") => check.result = "True"

(***************************************************************************)
(* Further claims about the record process_single_stock returns.           *)
(***************************************************************************)
\* C32 (as stated): no field of a returned record is NaN.
C32_NoNaNInRecord ==
  merge.result.returned = "record" =>
    \A k \in DOMAIN merge.result.data : merge.result.data[k] # NaN

(***************************************************************************)
(* Further claims about the real-time quotes.                              *)
(***************************************************************************)
\* the tickers for which a step starts a fetch of the polling loop
PollStarted == {t \in Pollers : ft'[t].kind = "poll" /\ ft[t].kind # "poll"}

\* C33 (as stated): the polling loop fetches the tickers of the active set
\* it read at the start of the tick, and never a ticker that has no
\* subscriber.
C33_PollsSubscribedTickersOnly ==
  [][/\ PollStarted # {} => (PollStarted = ActiveTickers /\ ploop' = "gather")
     /\ \A t \in PollStarted : Subscribers(subscriptions, t) # {}]_vars

\* the tasks that hold a slot of the semaphore
Holders(s) == {p \in Fetchers : s.st[p] \in Holding}

\* C34: at most price_semaphore_width (5) fetches are inside _fetch_price's
\* block at any time, whoever started them; a further one waits, and is
\* let in only when a slot is free; every fetch that ends, by a return, an
\* error, a rate limit or a cancellation, gives its slot back (the counter is
\* always the number of slots not held).
C34_AtMostFiveFetches ==
  [][/\ Cardinality(Holders(sem')) <= price_semaphore_width
     /\ sem'.value = price_semaphore_width - Cardinality(Holders(sem'))
     /\ \A p \in Fetchers :
          /\ (sem.st[p] = "idle" /\ sem'.st[p] = "waiting")
               => Cardinality(Holders(sem)) = price_semaphore_width \/ sem.waiters # <<>>
          /\ (sem.st[p] = "waiting" /\ sem'.st[p] \in Holding)
               => Cardinality(Holders(sem)) < price_semaphore_width
          /\ (sem.st[p] \in Holding /\ sem'.st[p] = "idle")
               => sem'.value = sem.value + 1]_vars

\* five fetches hold the slots and a sixth waits
C34_Witness ==
  /\ Cardinality(Holders(sem)) = price_semaphore_width
  /\ sem.waiters # <<>>
  /\ \E p \in Fetchers : sem.st[p] = "backoff"

(***************************************************************************)
(* Exceptions inside _check_symbol_for_updates.                            *)
(***************************************************************************)
\* the check was made for a stored record while the market is open and the
\* record is at or over its budget: the provider is called
CheckedOpenStale ==
  /\ CheckedStored
  /\ check.input.status = OPEN
  /\ check.input.age >= OPEN_BUDGET

\* the hash step was reached and the provider raised in it
HashStepRaised ==
  /\ CheckedOpenStale
  /\ ~DriftCheck(check.input)
  /\ check.input.statements = "error"

C36_RequiredFields ==
  /\ merge.result.returned = "record" =>
       /\ "ticker" \in DOMAIN merge.result.data
       /\ merge.result.data["ticker"] = StrVal(merge.input.symbol)
       /\ \/ "price" \in DOMAIN merge.result.data
          \/ "companyName" \in DOMAIN merge.result.data
  /\ (/\ merge.result.returned # "pending"
      /\ merge.input.yf_data.none
      /\ merge.input.finnhub_data.none)
       => merge.result.returned = "None"

\* the logo was fetched, neither provider answered, and nothing is returned
C36_Witness ==
  /\ merge.result.returned = "None"
  /\ merge.input.yf_data.none
  /\ merge.input.finnhub_data.none
  /\ merge.input.logo # Null

(***************************************************************************)
(* Claims about the loop tasks.                                            *)
(***************************************************************************)
\* the tasks that have been created and have not ended
Alive(tasks) == {t \in TaskIds : tasks[t] \in {"alive", "cancelling"}}

\* C37: whatever the order of the start_updates calls (of the lifespan and
\* of the trigger-update endpoint), of stop_updates and of start and stop, at
\* most one update-loop task and at most one polling-loop task is alive.
C37_AtMostOneLoopTask ==
  /\ Cardinality(Alive(life.um)) <= 1
  /\ Cardinality(Alive(life.rt)) <= 1

\* each manager runs its second task, the first having ended
C37_Witness ==
  /\ \E t, u \in TaskIds : life.um[t] = "ended" /\ life.um[u] = "alive"
  /\ \E t, u \in TaskIds : life.rt[t] = "ended" /\ life.rt[u] = "alive"

(***************************************************************************)
(* Claims about unsubscribe and a broadcast under way.                     *)
(***************************************************************************)
\* the step of broadcast p in which one send_json returns and the for loop
\* of line 80 calls the next
NextSendStarts(p) ==
  /\ fpc[p] = "sending"
  /\ fpc'[p] = "sending"
  /\ ft'[p].todo # ft[p].todo

\* C38: once unsubscribe(ticker, connection) has returned, no broadcast
\* sends a price update for the ticker to the connection, however the
\* unsubscribe and the broadcast interleave: whenever a broadcast goes on to
\* its next send, every connection it has yet to send to is subscribed.
C38_NoSendAfterUnsubscribe ==
  [][\A p \in FetchTasks :
       NextSendStarts(p)
         => \A ws \in ft'[p].todo : ws \in Subscribers(subscriptions, ft[p].ticker)]_vars

(***************************************************************************)
(* Claims about the stored documents.                                      *)
(***************************************************************************)
\* C39: a successful upsert of a record sets the top-level fields of the
\* record and nothing else: a field of the stored document that the record
\* does not have keeps its value, and the documents of the other tickers
\* are unchanged.
C39_UpsertSetsPresentFieldsOnly ==
  [][LET w == store'.last
         old == store.docs[w.symbol]
         new == store'.docs[w.symbol]
     IN (store' # store /\ w.returned)
          => /\ \A t \in StoreSymbols \ {w.symbol} : store'.docs[t] = store.docs[t]
             /\ DOMAIN new = DOMAIN old \cup DOMAIN w.data
             /\ \A k \in DOMAIN w.data : new[k] = w.data[k]
             /\ \A k \in DOMAIN old \ DOMAIN w.data : new[k] = old[k]]_vars

\* a record without image and without price was written over a document
\* that has both, next to a document of the other ticker
C39_Witness ==
  LET w == store.last
  IN /\ w.returned
     /\ {"image", "price"} \cap DOMAIN w.data = {}
     /\ {"image", "price"} \subseteq DOMAIN store.docs[w.symbol]
     /\ \E t \in StoreSymbols \ {w.symbol} : store.docs[t] # NoDocument

(***************************************************************************)
(* Claims about the totals of a run.                                       *)
(***************************************************************************)
\* the run of p has left its batch loop without a run-level exception
CompletedNormally(p) == pc[p] = "finally" /\ run[p].end = "normal"

\* every symbol of the input list of a completed run has been counted once
CountedOnce ==
  \A p \in Callers :
    CompletedNormally(p)
      => run[p].successful_updates + run[p].failed_updates = Len(call[p].symbols)

\* C40: when a run completes without a run-level exception,
\* successful_updates + failed_updates is the number of its input symbols,
\* occurrences of one symbol counted each, and the run has made as many
\* storage writes as it counted successful: every step that counts a symbol
\* successful writes the symbol's document.
C40_TotalsMatchInputAndWrites ==
  /\ []CountedOnce
  /\ [][\A p \in Callers :
          (/\ pc[p] = "save"
           /\ run'[p].successful_updates = run[p].successful_updates + 1
           /\ storage[HandledBy(p).sym].kind = "absent")
          => storage'[HandledBy(p).sym].kind = "doc"]_vars

====
